---- MODULE Spec2Model ----
(***************************************************************************)
(* A model of the batch pipeline of spike_psvae/subtract.py (subtraction,  *)
(* subtraction_batch, get_output_h5, NoKeyboardInterrupt) and of the batch *)
(* loading of spike_psvae/deconvolve.py (run_batch).                       *)
(*                                                                         *)
(* Times are sample indices.  The sizes of the source (121-sample spikes,  *)
(* 30000-sample batches) are scaled down; every scaled size is a named     *)
(* definition below.                                                       *)
(***************************************************************************)
EXTENDS Integers, Sequences, FiniteSets, TLC

\* ------------------------------------------------------------------ sizes

\* Longest recording, in samples, of the batch-geometry specification.
MaxLen == 15
\* Longest batch, in samples, of the batch-geometry specification.
MaxBatch == 8
\* Largest start_sample of the batch-geometry specification.
MaxStart == 1
\* spike_length_samples (121 in the source), scaled down.
spike_length_samples == 3
\* trough_offset (42 in the source), scaled down.
trough_offset == 1
\* self.buffer of MatchPursuitObjectiveUpsample (300 in the source), scaled down.
mp_buffer == 2
\* Length, in samples, of the recording of the run specification.
RunLen == 15
\* Most spikes in the recording of the run specification.
MaxSpikes == 1
\* Most spikes in the recording train_pca samples from.
MaxPcaSpikes == 2
\* Largest n_sec_pca of train_pca.
MaxSecPca == 2
\* Largest max_upsample of deconvolution().
MaxUpsample == 8
\* Largest floor(log2(peak-to-peak amplitude)) of a template.
MaxPtpLog2 == 2
\* Templates of the deconvolution.
n_units == 2
\* Samples of a template of the matching pursuit (self.n_time).
n_time == 3
\* Most cells of a batch's convolution that stand out of the noise.
MaxBumps == 2
\* max_iter of MatchPursuitObjectiveUpsample.
max_iter == 2
\* threshold of MatchPursuitObjectiveUpsample.
threshold == 1
\* -np.inf, below every value the objective can take.
NegInf == -1000000000
\* Most find_peaks calls on one objective, when the passes are made by hand.
MaxPasses == 3
\* As MaxBumps, for the passes made by hand.
MaxPassBumps == 3
\* Most invocations of subtraction() on one output folder.
MaxRuns == 2
\* Channels of the probe of detect_and_subtract.
n_channels == 3
\* Samples of the inner buffer of detect_and_subtract's chunk.
InnerLen == 2
\* The most spikes one detection pass returns.
MaxDetected == 2
\* The largest amplitude of a denoised waveform.
MaxAmp == 2
\* The largest up_factor find_peaks is modelled with.
MaxUpFactor == 2
\* Spikes in the data of one upsampled run_batch.
MaxUpBumps == 2
\* Channels of the templates of pairwise_filter_conv.
VisChans == 2
\* The largest n_processors of pairwise_filter_conv.
MaxProcessors == 3
\* The largest upsample pairwise_filter_conv is modelled with.
MaxConvUpsample == 4
\* The largest n_jobs subtraction() is called with.
MaxJobs == 4
\* The largest number of CPUs of the machine.
MaxCpu == 3
\* max_workers of the process pool (n_jobs).
pool_workers == 2

VARIABLES
    start_sample,       \* first sample of the processed region
    end_sample,         \* one past the last sample of the processed region
    batch_len_samples,  \* n_sec_chunk * sampling_rate
    gpc,                \* "geom" in the batch-geometry specification, else "off"
    gdone,              \* batch ids whose subtraction_batch has run
    persisted,          \* pairs <<batch id, absolute time>> a batch may persist
    shape_failed,       \* batch ids whose shape assertion failed (subtract.py)
    mp_done,            \* batch ids whose run_batch has loaded its chunk
    mp_shape_failed,    \* batch ids whose shape assertion failed (deconvolve.py)
    truth,              \* times of the spikes present in the recording
    pc,                 \* subtraction(): "start" | "loop" | "update" | "done" |
                        \*   "raised" | "interrupted" ("off": not in this spec)
    runs,               \* invocations of subtraction() so far
    h5_exists,          \* out_h5.exists()
    spike_index,        \* output_h5["spike_index"][:, 0]
    rows,               \* row count of every other per-spike table
    residual,           \* batch ids of the chunks in the residual binary file
    N,                  \* the spike counter of subtraction()
    pending,            \* jobs whose result pool.map has not yielded yet
    todo,               \* submitted jobs without a result yet, in job order;
                        \*   the first pool_workers of them are being processed
    finished,           \* batch ids whose future holds a result
    crashed,            \* batch ids whose future holds an exception
    cur,                \* batch id of the result being applied (-1: none)
    upc,                \* statement of the `with noint` body reached (0: outside)
    handler,            \* installed SIGINT handler: "old" | "noint"
    sig,                \* noint.sig is set
    files,              \* temporary files in batch_data_folder: <<batch id, kind>>
    applied,            \* batch ids folded into the store by this invocation
    intr_where,         \* where KeyboardInterrupt was raised in this invocation
    midwrite,           \* some invocation was interrupted inside the section
    prev_end            \* how the previous invocation ended ("none": first one)

cfgVars == <<start_sample, end_sample, batch_len_samples, truth>>
geomVars == <<gpc, gdone, persisted, shape_failed, mp_done, mp_shape_failed>>
storeVars == <<h5_exists, spike_index, rows, residual>>
poolVars == <<todo, finished, crashed>>
sigVars == <<handler, sig>>
histVars == <<applied, intr_where, midwrite, prev_end>>
runVars == <<pc, runs, storeVars, N, pending, poolVars, cur, upc, sigVars,
             files, histVars>>

VARIABLES
    pca_pc,             \* train_pca: "loop" | "fit" | "no_waveforms" | "returned"
    starts,             \* train_pca: the sampled window starts
    spike_indices,      \* train_pca: shapes of the spike indices collected
    waveforms           \* train_pca: shapes of the waveform arrays collected

pcaVars == <<pca_pc, starts, spike_indices, waveforms>>

VARIABLES
    tg_pc,                  \* denoising of a run: "start" | "open" | "nn" |
                            \*   "tpca" | "enforce" | "done" | "raised"
    do_nn_denoise,          \* argument of subtraction()
    n_sec_pca,              \* argument of subtraction(): "None" or "seconds"
    enforce_decrease_kind,  \* argument of subtraction()
    probe,                  \* "np1" | "np2" | "None", from the geometry
    do_enforce_decrease,    \* local of subtraction()
    radial_parents,         \* "None" or "parents"
    tpca,                   \* "None" or "fitted"
    stages                  \* the denoising stages applied to a waveform batch

toggleVars == <<tg_pc, do_nn_denoise, n_sec_pca, enforce_decrease_kind, probe,
                do_enforce_decrease, radial_parents, tpca, stages>>

VARIABLES
    id_pc,              \* unit ids: "templates" | "match" | "save" | "saved"
    max_upsample,       \* argument of deconvolution()
    ptp_log2,           \* per unit: floor(log2(max peak-to-peak amplitude))
    up_factor,          \* MatchPursuitObjectiveUpsample.up_factor
    matched,            \* original unit whose objective row held the peak
    deconv_unit,        \* unit column of the spike in the batch's spike_train
    saved_unit          \* unit column of the spike in spike_train.npy

idVars == <<id_pc, max_upsample, ptp_log2, up_factor, matched, deconv_unit,
            saved_unit>>

VARIABLES
    dc_pc,              \* run(): "load" | "loop" | "sort" | "saved" | "raised"
    dc_batch,           \* batch_id of the run_batch call
    lambd,              \* 0: no amplitude scaling
    conv_result,        \* self.conv_result[unit][t]
    obj,                \* self.obj[unit][t]
    ctr,                \* passes of the greedy loop that accepted spikes
    dec_spike_train,    \* self.dec_spike_train, rows <<time, unit id>>
    dec_scalings,       \* self.dec_scalings
    dist_metric,        \* self.dist_metric
    saved,              \* what np.savez wrote for the batch, key -> array
    returned            \* what run_batch returned

dcVars == <<dc_pc, dc_batch, lambd, conv_result, obj, ctr, dec_spike_train,
            dec_scalings, dist_metric, saved, returned>>

VARIABLES
    ps_pc,              \* passes by hand: "objective" | "find" | "subtract" | "raised"
    ps_spt,             \* the spike train the last find_peaks returned
    ps_scalings,        \* the scalings the last find_peaks returned
    ps_arg,             \* the scalings the last subtract_spike_train was given
    ps_accepted,        \* the spike trains of all find_peaks calls, in order
    ps_conv_before,     \* conv_result before the last subtract_spike_train
    ps_obj_before       \* obj before the last subtract_spike_train

psVars == <<ps_pc, ps_spt, ps_scalings, ps_arg, ps_accepted, ps_conv_before,
            ps_obj_before>>

VARIABLES
    rk_pc,              \* worker ranks: "setup" | "put" | "executor" | "pool" | "raised"
    n_jobs,             \* subtraction()'s n_jobs, as the code reassigns it
    cpu_count,          \* multiprocessing.cpu_count()
    Executor,           \* "ProcessPoolExecutor" | "MockPoolExecutor"
    id_queue,           \* the ids in id_queue, oldest first
    initializing,       \* the workers whose initializer has started
    rank,               \* worker -> the rank its initializer got
    blocked             \* the workers whose id_queue.get() found no id

rkVars == <<rk_pc, n_jobs, cpu_count, Executor, id_queue, initializing, rank,
            blocked>>

VARIABLES
    das_pc,             \* detect_and_subtract: "detect" | "denoise" | "subtract" | "returned"
    raw,                \* raw[t][c], the residual chunk handed in
    das_spike_index,    \* spike_index of the pass, rows <<time, channel>>
    das_amp,            \* per spike, the amplitude of its denoised waveform
    subtracted_raw      \* the residual returned

dasVars == <<das_pc, raw, das_spike_index, das_amp, subtracted_raw>>

VARIABLES
    ga_pc,              \* deconvolution(): "run" | "gather" | "gathered"
    ga_files,           \* batch_id -> spike_train of seg_<batch_id>_deconv.npz
    ga_order,           \* the batch ids in the order their run_batch ended
    deconv_st           \* the gathered spike train

gaVars == <<ga_pc, ga_files, ga_order, deconv_st>>

VARIABLES
    co_pc,              \* compute_objective: "update_data" | "compute" | "computed"
    co_data             \* the convolution of the batch's data with the filters

coVars == <<co_pc, co_data>>

VARIABLES
    pw_pc,              \* pairwise_filter_conv: "chunks" | "load" | "saved"
    vis_chan,           \* original unit -> its visible channels
    n_processors,       \* argument of MatchPursuitObjectiveUpsample
    multi_processing,   \* argument of MatchPursuitObjectiveUpsample
    pw_files,           \* proc_index -> the list pickled to temp_temp_chunk_<proc_index>.pkl
    pw_order,           \* the proc_index values in the order the chunks ended
    pairwise_table      \* the array saved to pairwise_conv.npy, id -> entry

pwVars == <<pw_pc, vis_chan, n_processors, multi_processing, pw_files, pw_order,
            pairwise_table>>

VARIABLES
    hr_pc,              \* run_batch's loop: "objective" | "loop" | "done" | "raised" | "IndexError"
    hr_candidates,      \* rows <<time, unit>> of the peaks of the last find_peaks
    hr_spt,             \* the spike train the last find_peaks returned
    hr_scalings,        \* the scalings the last find_peaks returned
    hr_obj_before       \* obj when the last find_peaks was called

hrVars == <<hr_pc, hr_candidates, hr_spt, hr_scalings, hr_obj_before>>

lateVars == <<rkVars, dasVars, gaVars, coVars, pwVars, hrVars>>
unitVars == <<pcaVars, toggleVars, idVars, dcVars, psVars, lateVars>>

\* The variables of train_pca while it is not modelled.
PcaOff ==
    /\ pca_pc = "off"
    /\ starts = <<>>
    /\ spike_indices = <<>>
    /\ waveforms = <<>>

\* The variables of the denoising stages while they are not modelled.
ToggleOff ==
    /\ tg_pc = "off"
    /\ do_nn_denoise = TRUE
    /\ n_sec_pca = "seconds"
    /\ enforce_decrease_kind = "columns"
    /\ probe = "None"
    /\ do_enforce_decrease = TRUE
    /\ radial_parents = "None"
    /\ tpca = "None"
    /\ stages = <<>>

\* The variables of the unit ids while they are not modelled.
IdOff ==
    /\ id_pc = "off"
    /\ max_upsample = 1
    /\ ptp_log2 = <<>>
    /\ up_factor = 1
    /\ matched = -1
    /\ deconv_unit = -1
    /\ saved_unit = -1

\* The variables of the matching pursuit while it is not modelled.
DcOff ==
    /\ dc_pc = "off"
    /\ dc_batch = 0
    /\ lambd = 0
    /\ conv_result = <<>>
    /\ obj = <<>>
    /\ ctr = 0
    /\ dec_spike_train = <<>>
    /\ dec_scalings = <<>>
    /\ dist_metric = <<>>
    /\ saved = <<>>
    /\ returned = "None"

\* The variables of the passes made by hand while they are not modelled.
PsOff ==
    /\ ps_pc = "off"
    /\ ps_spt = <<>>
    /\ ps_scalings = <<>>
    /\ ps_arg = <<>>
    /\ ps_accepted = <<>>
    /\ ps_conv_before = <<>>
    /\ ps_obj_before = <<>>

\* The variables of the worker ranks while they are not modelled.
RkOff ==
    /\ rk_pc = "off"
    /\ n_jobs = 0
    /\ cpu_count = 1
    /\ Executor = "None"
    /\ id_queue = <<>>
    /\ initializing = {}
    /\ rank = <<>>
    /\ blocked = {}

\* The variables of detect_and_subtract while it is not modelled.
DasOff ==
    /\ das_pc = "off"
    /\ raw = <<>>
    /\ das_spike_index = <<>>
    /\ das_amp = <<>>
    /\ subtracted_raw = <<>>

\* The variables of deconvolution()'s gathering while it is not modelled.
GaOff ==
    /\ ga_pc = "off"
    /\ ga_files = <<>>
    /\ ga_order = <<>>
    /\ deconv_st = <<>>

\* The variables of compute_objective's storage while it is not modelled.
CoOff ==
    /\ co_pc = "off"
    /\ co_data = <<>>

\* The variables of pairwise_filter_conv while it is not modelled.
PwOff ==
    /\ pw_pc = "off"
    /\ vis_chan = <<>>
    /\ n_processors = 1
    /\ multi_processing = FALSE
    /\ pw_files = <<>>
    /\ pw_order = <<>>
    /\ pairwise_table = <<>>

\* The variables of the upsampled find_peaks while it is not modelled.
HrOff ==
    /\ hr_pc = "off"
    /\ hr_candidates = <<>>
    /\ hr_spt = <<>>
    /\ hr_scalings = <<>>
    /\ hr_obj_before = <<>>

LateOff == RkOff /\ DasOff /\ GaOff /\ CoOff /\ PwOff /\ HrOff

UnitOff == PcaOff /\ ToggleOff /\ IdOff /\ DcOff /\ PsOff /\ LateOff

\* ------------------------------------------------------------- arithmetic

Min(a, b) == IF a < b THEN a ELSE b
Max(a, b) == IF a > b THEN a ELSE b

\* np.argsort + indexing: the elements of a finite set of integers, ascending.
RECURSIVE AscendingSeq(_)
AscendingSeq(S) ==
    IF S = {} THEN <<>>
    ELSE LET m == CHOOSE x \in S : \A y \in S : x <= y
         IN  <<m>> \o AscendingSeq(S \ {m})

\* np.searchsorted(a, v, side="left"): number of entries of a below v.
searchsorted_left(a, v) == Cardinality({i \in 1..Len(a) : a[i] < v})
\* np.searchsorted(a, v, side="right"): number of entries of a not above v.
searchsorted_right(a, v) == Cardinality({i \in 1..Len(a) : a[i] <= v})

\* ------------------------------------------------ batches of subtraction()

\* jobs = list(enumerate(range(start_sample, end_sample, batch_len_samples)))
n_jobs_total ==
    (end_sample - start_sample + batch_len_samples - 1) \div batch_len_samples
BatchIds == 0..(n_jobs_total - 1)
job_start(batch_id) == start_sample + batch_id * batch_len_samples

\* ---------------------------------------------------- subtraction_batch()

buffer == 2 * spike_length_samples

s_end(s_start) == Min(end_sample, s_start + batch_len_samples)
load_start(s_start) == Max(start_sample, s_start - buffer)
load_end(s_start) == Min(end_sample, s_end(s_start) + buffer)

pad_left(s_start) ==
    IF load_start(s_start) = start_sample THEN buffer ELSE 0
pad_right(s_start) ==
    IF load_end(s_start) = end_sample
    THEN buffer - (end_sample - s_end(s_start))
    ELSE 0

\* Rows of `residual` after read_data and np.pad.
residual_rows(s_start) ==
    (load_end(s_start) - load_start(s_start))
        + pad_left(s_start) + pad_right(s_start)

\* assert residual.shape == (2 * buffer + s_end - s_start, n_channels)
shape_assert(s_start) ==
    residual_rows(s_start) = 2 * buffer + s_end(s_start) - s_start

\* The absolute times at which detect_and_subtract can report a spike of this
\* batch: detection runs on raw[spike_length_samples:-spike_length_samples],
\* the centre plus the inner buffer, and only real samples hold spikes.
detect_window(s_start) ==
    {t \in start_sample..(end_sample - 1) :
        /\ s_start - spike_length_samples <= t
        /\ t < s_end(s_start) + spike_length_samples}

\* The detections of a batch, as times relative to s_start, sorted
\* (np.concatenate over thresholds, then argsort).
detected_rel(s_start, spikes) ==
    AscendingSeq({t - s_start : t \in spikes \cap detect_window(s_start)})

spike_time_min(s_start) ==
    IF s_start = start_sample THEN trough_offset ELSE 0
spike_time_max(s_start) ==
    IF load_end(s_start) = end_sample
    THEN (s_end(s_start) - s_start) - (spike_length_samples - trough_offset)
    ELSE s_end(s_start) - s_start

\* spike_index[minix:maxix] of the sorted detections.
trim(times, s_start) ==
    LET minix == searchsorted_left(times, spike_time_min(s_start))
        maxix == searchsorted_right(times, spike_time_max(s_start))
    IN  SubSeq(times, minix + 1, maxix)

\* spike_index[:, 0] += s_start : the absolute times the batch saves.
batch_spike_index(s_start, spikes) ==
    LET kept == trim(detected_rel(s_start, spikes), s_start)
    IN  [i \in 1..Len(kept) |-> kept[i] + s_start]

Range(f) == {f[i] : i \in DOMAIN f}

\* --------------------------------- MatchPursuitObjectiveUpsample.run_batch

mp_s_start(batch_id) == start_sample + batch_id * batch_len_samples
mp_s_end(batch_id) == Min(end_sample, mp_s_start(batch_id) + batch_len_samples)
mp_load_start(batch_id) == Max(start_sample, mp_s_start(batch_id) - mp_buffer)
mp_load_end(batch_id) == Min(end_sample, mp_s_end(batch_id) + mp_buffer)
mp_pad_left(batch_id) ==
    IF mp_load_start(batch_id) = start_sample THEN mp_buffer ELSE 0
mp_pad_right(batch_id) ==
    IF mp_load_end(batch_id) = end_sample
    THEN mp_buffer - (end_sample - mp_s_end(batch_id))
    ELSE 0
mp_data_rows(batch_id) ==
    (mp_load_end(batch_id) - mp_load_start(batch_id))
        + mp_pad_left(batch_id) + mp_pad_right(batch_id)
mp_shape_assert(batch_id) ==
    mp_data_rows(batch_id)
        = 2 * mp_buffer + mp_s_end(batch_id) - mp_s_start(batch_id)

\* ------------------------------------- batch-geometry specification

AllTimes == start_sample..(end_sample - 1)

\* The per-spike tables of the store besides spike_index, with the defaults
\* save_waveforms=False, localization_kind="logbarrier",
\* neighborhood_kind="firstchan".
LocTables == {"localizations", "maxptps", "trough_depths", "peak_heights", "widths"}
OtherTables == {"subtracted_tpca_projs", "first_channels"} \cup LocTables

\* The run variables while no subtraction() is modelled.
RunOff ==
    /\ pc = "off"
    /\ runs = 0
    /\ h5_exists = FALSE
    /\ spike_index = <<>>
    /\ rows = [t \in OtherTables |-> 0]
    /\ residual = <<>>
    /\ N = 0
    /\ pending = <<>>
    /\ todo = <<>>
    /\ finished = {}
    /\ crashed = {}
    /\ cur = -1
    /\ upc = 0
    /\ handler = "old"
    /\ sig = FALSE
    /\ files = {}
    /\ applied = <<>>
    /\ intr_where = "none"
    /\ midwrite = FALSE
    /\ prev_end = "none"

GeomInit ==
    /\ start_sample \in 0..MaxStart
    /\ end_sample \in (start_sample + 1)..MaxLen
    /\ batch_len_samples \in 1..MaxBatch
    /\ gpc = "geom"
    /\ gdone = {}
    /\ persisted = {}
    /\ shape_failed = {}
    /\ mp_done = {}
    /\ mp_shape_failed = {}
    /\ truth = {}
    /\ RunOff
    /\ UnitOff

\* subtraction_batch on batch b (batches taken in id order), every sample of
\* the recording being a candidate spike time: what the batch loads and what
\* it may persist.  A failed shape assertion ends the batch.
GeomSubtractionBatch(b) ==
    /\ gpc = "geom"
    /\ b \in BatchIds \ gdone
    /\ \A c \in BatchIds : c < b => c \in gdone
    /\ gdone' = gdone \cup {b}
    /\ IF shape_assert(job_start(b))
       THEN /\ persisted' = persisted \cup
                  {<<b, t>> : t \in Range(batch_spike_index(job_start(b), AllTimes))}
            /\ UNCHANGED shape_failed
       ELSE /\ shape_failed' = shape_failed \cup {b}
            /\ UNCHANGED persisted
    /\ UNCHANGED <<cfgVars, unitVars, gpc, mp_done, mp_shape_failed, runVars>>

\* run_batch on batch b (after the subtraction batches, in id order), up to
\* its shape assertion.
GeomRunBatch(b) ==
    /\ gpc = "geom"
    /\ gdone = BatchIds
    /\ b \in BatchIds \ mp_done
    /\ \A c \in BatchIds : c < b => c \in mp_done
    /\ mp_done' = mp_done \cup {b}
    /\ mp_shape_failed' =
          IF mp_shape_assert(b) THEN mp_shape_failed ELSE mp_shape_failed \cup {b}
    /\ UNCHANGED <<cfgVars, unitVars, gpc, gdone, persisted, shape_failed, runVars>>

GeomNext ==
    \/ \E b \in BatchIds : GeomSubtractionBatch(b)
    \/ \E b \in BatchIds : GeomRunBatch(b)

vars == <<cfgVars, unitVars, geomVars, runVars>>

GeomSpec == GeomInit /\ [][GeomNext]_vars

\* ------------------------------------------------- subtraction(): run spec

GeomOff ==
    /\ gpc = "off"
    /\ gdone = {}
    /\ persisted = {}
    /\ shape_failed = {}
    /\ mp_done = {}
    /\ mp_shape_failed = {}

\* The temporary files subtraction_batch saves when it has detections.
SpikeFiles ==
    {"sub", "subpc", "si", "clean",
     "loc", "maxptp", "tdepth", "pheight", "width"}

\* What subtraction_batch returns for batch b, and the files it has saved:
\* the residual always, the others unless it returned early.
batch_detected(b) == detected_rel(job_start(b), truth) # <<>>
batch_result(b) ==
    [batch_id |-> b,
     N_new |-> Len(batch_spike_index(job_start(b), truth)),
     spike_index |-> batch_spike_index(job_start(b), truth)]
batch_files(b) ==
    {<<b, "res">>}
        \cup (IF batch_detected(b) THEN {<<b, k>> : k \in SpikeFiles} ELSE {})

\* h5py Dataset.resize along axis 0: truncate, or extend with the fill value 0.
resize(data, n) ==
    IF n <= Len(data) THEN SubSeq(data, 1, n)
    ELSE data \o [i \in 1..(n - Len(data)) |-> 0]

\* jobs = [(batch_id, start) for batch_id, start in jobs if start >= last_sample]
filter_jobs(last_sample) ==
    AscendingSeq({b \in BatchIds : job_start(b) >= last_sample})

\* last_sample of get_output_h5 when the store exists and overwrite=False.
get_last_sample ==
    IF Len(spike_index) > 0 THEN spike_index[Len(spike_index)] ELSE 0

SpikeSets == {S \in SUBSET (0..(RunLen - 1)) : Cardinality(S) <= MaxSpikes}

Init ==
    /\ start_sample = 0
    /\ end_sample = RunLen
    /\ batch_len_samples \in {spike_length_samples, buffer + 1}
    /\ truth \in SpikeSets
    /\ GeomOff
    /\ UnitOff
    /\ pc = "start"
    /\ runs = 1
    /\ h5_exists = FALSE
    /\ spike_index = <<>>
    /\ rows = [t \in OtherTables |-> 0]
    /\ residual = <<>>
    /\ N = 0
    /\ pending = <<>>
    /\ todo = <<>>
    /\ finished = {}
    /\ crashed = {}
    /\ cur = -1
    /\ upc = 0
    /\ handler = "old"
    /\ sig = FALSE
    /\ files = {}
    /\ applied = <<>>
    /\ intr_where = "none"
    /\ midwrite = FALSE
    /\ prev_end = "none"

\* residual_mode = "ab" if last_sample > 0 else "wb": what open() leaves of
\* the residual file.
open_residual(last_sample) == IF last_sample > 0 THEN residual ELSE <<>>

\* get_output_h5 (overwrite=False), N = len(spike_index), the filter of the
\* jobs, the opening of the residual file (save_residual=True) and the
\* submission of all the jobs by pool.map.
Open ==
    /\ pc = "start"
    /\ LET last_sample == IF h5_exists THEN get_last_sample ELSE 0
           jobs == filter_jobs(last_sample)
       IN  /\ pending' = jobs
           /\ todo' = jobs
           /\ residual' = open_residual(last_sample)
    /\ h5_exists' = TRUE
    /\ N' = Len(spike_index)
    /\ pc' = "loop"
    /\ UNCHANGED <<cfgVars, unitVars, geomVars, runs, spike_index, rows, finished,
                   crashed, cur, upc, sigVars, files, histVars>>

\* The jobs the workers of the pool are processing: an idle worker takes the
\* next submitted job at once.
running == {todo[i] : i \in 1..Min(pool_workers, Len(todo))}

without(jobs, b) == SelectSeq(jobs, LAMBDA x : x # b)

\* _subtraction_batch returns in a worker: the shape assertion raises before
\* anything is saved, otherwise the batch's files are in the batch folder.
WorkerFinish(b) ==
    /\ b \in running
    /\ todo' = without(todo, b)
    /\ IF shape_assert(job_start(b))
       THEN /\ finished' = finished \cup {b}
            /\ files' = files \cup batch_files(b)
            /\ UNCHANGED crashed
       ELSE /\ crashed' = crashed \cup {b}
            /\ UNCHANGED <<finished, files>>
    /\ UNCHANGED <<cfgVars, unitVars, geomVars, pc, runs, storeVars, N, pending, cur,
                   upc, sigVars, histVars>>

\* Processing of batch b raises in its worker for a reason of the
\* environment (I/O, memory).
WorkerRaise(b) ==
    /\ b \in running
    /\ todo' = without(todo, b)
    /\ crashed' = crashed \cup {b}
    /\ UNCHANGED <<cfgVars, unitVars, geomVars, pc, runs, storeVars, N, pending,
                   finished, cur, upc, sigVars, files, histVars>>

\* Executor.__exit__ when subtraction() is left: the jobs not started are
\* cancelled, shutdown(wait=True) lets the running ones save their files, and
\* the futures are gone with the pool.
Shutdown ==
    /\ todo' = <<>>
    /\ finished' = {}
    /\ crashed' = {}
    /\ files' = files \cup
          UNION {batch_files(b) : b \in {c \in running : shape_assert(job_start(c))}}

\* next_job as a loop over concurrent.futures.as_completed would have it:
\* the latest job among those whose future is done.
next_job_as_completed ==
    LET ready == {b \in Range(pending) : b \in finished \cup crashed}
    IN  IF ready = {} THEN Head(pending)
        ELSE CHOOSE b \in ready : \A c \in ready : c <= b

\* The job whose result the iterator of pool.map yields next: the results
\* come in the order of the jobs.
next_job == Head(pending)

\* A worker error swallowed by the loop: the batch is dropped and the loop
\* goes on.
DropFailedBatch ==
    /\ pc' = "loop"
    /\ pending' = without(pending, next_job)
    /\ crashed' = crashed
    /\ UNCHANGED <<todo, finished, files>>

\* future.result() re-raises the exception of the worker in the supervisor,
\* which leaves the loop, the pool and the store's context manager.
RaiseFromWorker ==
    /\ pc' = "raised"
    /\ Shutdown
    /\ UNCHANGED pending

\* The result iterator of pool.map yields the next result and the supervisor
\* enters `with noint` (NoKeyboardInterrupt.__enter__); a job that raised
\* raises here, and subtraction() with it.
NextResult ==
    /\ pc = "loop"
    /\ pending # <<>>
    /\ LET b == next_job
       IN  \/ /\ b \in finished
              /\ pc' = "update"
              /\ cur' = b
              /\ upc' = 1
              /\ handler' = "noint"
              /\ sig' = FALSE
              /\ UNCHANGED <<pending, poolVars, files>>
           \/ /\ b \in crashed
              /\ RaiseFromWorker
              /\ UNCHANGED <<cur, upc, sigVars>>
    /\ UNCHANGED <<cfgVars, unitVars, geomVars, runs, storeVars, N, histVars>>

result == batch_result(cur)

\* The loop without its test of N_new.
skip_never(N_new) == FALSE

\* if not N_new: continue
skip_batch(N_new) == N_new = 0

\* NoKeyboardInterrupt.__exit__ at the end of the body, then the next turn
\* of the loop: a held signal goes to the previous handler, whose
\* KeyboardInterrupt leaves subtraction().
ExitSection ==
    /\ handler' = "old"
    /\ upc' = 0
    /\ cur' = -1
    /\ applied' = Append(applied, cur)
    /\ pending' = without(pending, cur)
    /\ IF sig
       THEN /\ pc' = "interrupted"
            /\ intr_where' = "exit"
            /\ Shutdown
       ELSE /\ pc' = "loop"
            /\ UNCHANGED <<intr_where, poolVars, files>>
    /\ UNCHANGED <<sig, midwrite, prev_end>>

\* What every statement of the body leaves alone.
UpdFrame ==
    UNCHANGED <<cfgVars, unitVars, geomVars, pc, runs, h5_exists, N, pending, poolVars,
                cur, sigVars, histVars>>

\* np.load of a file that is not there raises inside the body; __exit__ puts
\* the previous handler back and hands it a held signal.
LoadFails ==
    /\ handler' = "old"
    /\ upc' = 0
    /\ cur' = -1
    /\ pc' = IF sig THEN "interrupted" ELSE "raised"
    /\ intr_where' = IF sig THEN "exit" ELSE intr_where
    /\ Shutdown
    /\ UNCHANGED <<cfgVars, unitVars, geomVars, runs, storeVars, N, pending, sig,
                   applied, midwrite, prev_end>>

\* np.load(result.residual).tofile(residual); Path(result.residual).unlink()
UpdResidual ==
    /\ pc = "update" /\ upc = 1
    /\ residual' = Append(residual, cur)
    /\ files' = files \ {<<cur, "res">>}
    /\ upc' = 2
    /\ UNCHANGED <<spike_index, rows>>
    /\ UpdFrame

\* if not N_new: continue
UpdSkip ==
    /\ pc = "update" /\ upc = 2
    /\ skip_batch(result.N_new)
    /\ ExitSection
    /\ UNCHANGED <<cfgVars, unitVars, geomVars, runs, storeVars, N>>

\* subtracted_tpca_projs.resize(N + N_new); subtracted_tpca_projs[N:] = ...
UpdTpca ==
    /\ pc = "update" /\ upc = 2
    /\ ~skip_batch(result.N_new)
    /\ IF <<cur, "subpc">> \in files
       THEN /\ rows' = [rows EXCEPT
                          !["subtracted_tpca_projs"] = N + result.N_new]
            /\ upc' = 3
            /\ UNCHANGED <<spike_index, files, residual>>
            /\ UpdFrame
       ELSE LoadFails

\* spike_index.resize(N + N_new, axis=0)
UpdResizeSpikeIndex ==
    /\ pc = "update" /\ upc = 3
    /\ spike_index' = resize(spike_index, N + result.N_new)
    /\ upc' = 4
    /\ UNCHANGED <<rows, files, residual>>
    /\ UpdFrame

\* spike_index[N:] = np.load(result.spike_index)
UpdWriteSpikeIndex ==
    /\ pc = "update" /\ upc = 4
    /\ spike_index' = SubSeq(spike_index, 1, N) \o result.spike_index
    /\ upc' = 5
    /\ UNCHANGED <<rows, files, residual>>
    /\ UpdFrame

\* locs, maxptps, trough_depths, peak_heights, widths: resize and write.
UpdLocalizations ==
    /\ pc = "update" /\ upc = 5
    /\ rows' = [t \in OtherTables |->
                  IF t \in LocTables THEN N + result.N_new ELSE rows[t]]
    /\ upc' = 6
    /\ UNCHANGED <<spike_index, files, residual>>
    /\ UpdFrame

\* firstchans.resize(N + N_new); firstchans[N:] = ...
UpdFirstChannels ==
    /\ pc = "update" /\ upc = 6
    /\ rows' = [rows EXCEPT !["first_channels"] = N + result.N_new]
    /\ upc' = 7
    /\ UNCHANGED <<spike_index, files, residual>>
    /\ UpdFrame

\* delete original files
UpdUnlink ==
    /\ pc = "update" /\ upc = 7
    /\ files' = files \ {<<cur, k>> : k \in SpikeFiles}
    /\ upc' = 8
    /\ UNCHANGED <<spike_index, rows, residual>>
    /\ UpdFrame

\* N += N_new, and the body ends.
UpdCount ==
    /\ pc = "update" /\ upc = 8
    /\ N' = N + result.N_new
    /\ ExitSection
    /\ UNCHANGED <<cfgVars, unitVars, geomVars, runs, storeVars>>

\* The loop is over: the store is closed and subtraction() returns.
Finish ==
    /\ pc = "loop"
    /\ pending = <<>>
    /\ pc' = "done"
    /\ Shutdown
    /\ UNCHANGED <<cfgVars, unitVars, geomVars, runs, storeVars, N, pending, cur, upc,
                   sigVars, histVars>>

\* SIGINT reaches the supervisor outside the section: the previous handler
\* raises KeyboardInterrupt, which leaves subtraction().
SigIntOutside ==
    /\ pc = "loop"
    /\ handler = "old"
    /\ pc' = "interrupted"
    /\ intr_where' = "outside"
    /\ Shutdown
    /\ UNCHANGED <<cfgVars, unitVars, geomVars, runs, storeVars, N, pending, cur, upc,
                   sigVars, applied, midwrite, prev_end>>

\* NoKeyboardInterrupt.handler, no signal held yet: self.sig = sig.
SigIntHeld ==
    /\ pc = "update"
    /\ handler = "noint"
    /\ ~sig
    /\ sig' = TRUE
    /\ UNCHANGED <<cfgVars, unitVars, geomVars, pc, runs, storeVars, N, pending,
                   poolVars, cur, upc, handler, files, histVars>>

\* NoKeyboardInterrupt.handler, a signal already held: the previous handler is
\* put back and called, and its KeyboardInterrupt leaves the body at the
\* statement the supervisor has reached.
SigIntAgain ==
    /\ pc = "update"
    /\ handler = "noint"
    /\ sig
    /\ handler' = "old"
    /\ sig' = FALSE
    /\ pc' = "interrupted"
    /\ intr_where' = "inside"
    /\ midwrite' = TRUE
    /\ upc' = 0
    /\ cur' = -1
    /\ Shutdown
    /\ UNCHANGED <<cfgVars, unitVars, geomVars, runs, storeVars, N, pending, applied,
                   prev_end>>

\* subtraction() is invoked again on the same folder with overwrite=False.
Restart ==
    /\ pc \in {"done", "raised", "interrupted"}
    /\ runs < MaxRuns
    /\ runs' = runs + 1
    /\ prev_end' = pc
    /\ pc' = "start"
    /\ pending' = <<>>
    /\ N' = 0
    /\ applied' = <<>>
    /\ intr_where' = "none"
    /\ UNCHANGED <<cfgVars, unitVars, geomVars, storeVars, poolVars, cur, upc, sigVars,
                   files, midwrite>>

Next ==
    \/ Open
    \/ \E b \in BatchIds : WorkerFinish(b)
    \/ \E b \in BatchIds : WorkerRaise(b)
    \/ NextResult
    \/ UpdResidual
    \/ UpdSkip
    \/ UpdTpca
    \/ UpdResizeSpikeIndex
    \/ UpdWriteSpikeIndex
    \/ UpdLocalizations
    \/ UpdFirstChannels
    \/ UpdUnlink
    \/ UpdCount
    \/ Finish
    \/ SigIntOutside
    \/ SigIntHeld
    \/ SigIntAgain
    \/ Restart

Spec == Init /\ [][Next]_vars

\* ------------------------------------------------------------- train_pca

\* What subtraction_batch returns to train_pca (batch_data_folder=None) for
\* the window at s_start, as array shapes: the empty lists when nothing was
\* detected, else the sorted and trimmed arrays.  One channel is modelled.
pca_batch(s_start) ==
    LET det == detected_rel(s_start, truth)
        n == Len(trim(det, s_start))
    IN  IF det = <<>>
        THEN [spind |-> <<0>>, wfs |-> <<0>>]
        ELSE [spind |-> <<n, 2>>, wfs |-> <<n, spike_length_samples, 1>>]

RECURSIVE sum_rows(_)
sum_rows(arrays) ==
    IF arrays = <<>> THEN 0 ELSE Head(arrays)[1] + sum_rows(Tail(arrays))

\* np.concatenate(arrays, axis=0) on shapes: ValueError for no array and for
\* arrays that differ in their number of dimensions or in a trailing one.
np_concatenate(arrays) ==
    IF arrays = <<>> THEN [ok |-> FALSE, shape |-> <<>>]
    ELSE IF \E i \in DOMAIN arrays :
               \/ Len(arrays[i]) # Len(arrays[1])
               \/ Tail(arrays[i]) # Tail(arrays[1])
         THEN [ok |-> FALSE, shape |-> <<>>]
         ELSE [ok |-> TRUE, shape |-> <<sum_rows(arrays)>> \o Tail(arrays[1])]

\* The sequences of k distinct window indices below n.
RECURSIVE choices(_, _)
choices(n, k) ==
    IF k = 0 THEN {<<>>}
    ELSE {Append(c, i) : c \in choices(n, k - 1), i \in 0..(n - 1)}

distinct_choices(n, k) ==
    {c \in choices(n, k) : \A i, j \in DOMAIN c : i # j => c[i] # c[j]}

\* train_pca is called on a recording of RunLen samples whose "second" has
\* buffer + 1 samples: starts = sampling_rate * choice(n_seconds,
\* size=min(n_sec_pca, n_seconds), replace=False).
PcaInit ==
    /\ start_sample = 0
    /\ end_sample = RunLen
    /\ batch_len_samples = buffer + 1
    /\ truth \in {S \in SUBSET (0..(RunLen - 1)) : Cardinality(S) <= MaxPcaSpikes}
    /\ \E n_sec \in 0..MaxSecPca :
          LET n_seconds == end_sample \div batch_len_samples
          IN  starts \in {[i \in DOMAIN c |-> batch_len_samples * c[i]] :
                            c \in distinct_choices(n_seconds,
                                                   Min(n_sec, n_seconds))}
    /\ pca_pc = "loop"
    /\ spike_indices = <<>>
    /\ waveforms = <<>>
    /\ GeomOff
    /\ RunOff
    /\ ToggleOff
    /\ IdOff
    /\ DcOff
    /\ PsOff
    /\ LateOff

\* One turn of `for s_start in starts`: the mini-subtraction of one window.
PcaBatch ==
    /\ pca_pc = "loop"
    /\ Len(spike_indices) < Len(starts)
    /\ LET r == pca_batch(starts[Len(spike_indices) + 1])
       IN  /\ spike_indices' = Append(spike_indices, r.spind)
           /\ waveforms' = Append(waveforms, r.wfs)
    /\ UNCHANGED <<cfgVars, geomVars, runVars, toggleVars, idVars, dcVars, psVars, lateVars, pca_pc, starts>>

\* The try block: both concatenations and the test of waveforms.size; every
\* ValueError becomes the "No waveforms found" error.
PcaConcatenate ==
    /\ pca_pc = "loop"
    /\ Len(spike_indices) = Len(starts)
    /\ LET si == np_concatenate(spike_indices)
           wf == np_concatenate(waveforms)
       IN  pca_pc' = IF si.ok /\ wf.ok /\ wf.shape[1] # 0
                     THEN "fit" ELSE "no_waveforms"
    /\ UNCHANGED <<cfgVars, geomVars, runVars, toggleVars, idVars, dcVars, psVars, lateVars, starts, spike_indices,
                   waveforms>>

\* tpca.fit(wfs_in_probe); return tpca
PcaFit ==
    /\ pca_pc = "fit"
    /\ pca_pc' = "returned"
    /\ UNCHANGED <<cfgVars, geomVars, runVars, toggleVars, idVars, dcVars, psVars, lateVars, starts, spike_indices,
                   waveforms>>

PcaNext == PcaBatch \/ PcaConcatenate \/ PcaFit

PcaSpec == PcaInit /\ [][PcaNext]_vars

\* ------------------------------------- the denoising stages and their switches

tgArgs == <<do_nn_denoise, n_sec_pca, enforce_decrease_kind, probe>>
tgOthers == <<cfgVars, geomVars, runVars, pcaVars, idVars, dcVars, psVars,
             lateVars>>

\* A run of subtraction() on a fresh output folder, for every setting of the
\* three switches and every probe kind.
ToggleInit ==
    /\ do_nn_denoise \in BOOLEAN
    /\ n_sec_pca \in {"None", "seconds"}
    /\ enforce_decrease_kind \in {"columns", "radial", "none"}
    /\ probe \in {"np1", "np2", "None"}
    /\ tg_pc = "start"
    /\ do_enforce_decrease = TRUE
    /\ radial_parents = "None"
    /\ tpca = "None"
    /\ stages = <<>>
    /\ start_sample = 0
    /\ end_sample = RunLen
    /\ batch_len_samples = buffer + 1
    /\ truth = {}
    /\ GeomOff
    /\ RunOff
    /\ PcaOff
    /\ IdOff
    /\ DcOff
    /\ PsOff
    /\ LateOff

\* subtraction(): the enforce-decrease helper data and the pre-fit of the
\* temporal PCA.
TgSetup ==
    /\ tg_pc = "start"
    /\ radial_parents' =
          IF enforce_decrease_kind = "radial" THEN "parents" ELSE "None"
    /\ do_enforce_decrease' = (enforce_decrease_kind \in {"radial", "columns"})
    /\ tpca' = IF n_sec_pca # "None" THEN "fitted" ELSE "None"
    /\ tg_pc' = "open"
    /\ UNCHANGED <<tgOthers, tgArgs, stages>>

\* get_output_h5 creates the store: the shape of subtracted_tpca_projs reads
\* tpca.components_, an AttributeError when tpca is None.
TgOpenStore ==
    /\ tg_pc = "open"
    /\ tg_pc' = IF tpca = "None" THEN "raised" ELSE "nn"
    /\ UNCHANGED <<tgOthers, tgArgs, do_enforce_decrease, radial_parents, tpca,
                   stages>>

\* full_denoising: if denoiser is not None (the worker loads it when
\* do_nn_denoise).
nn_applied == do_nn_denoise
\* full_denoising: if tpca is not None
tpca_applied == tpca # "None"
\* full_denoising: the branches that enforce decrease.
enforce_applied ==
    \/ radial_parents = "None" /\ probe # "None"
    \/ radial_parents # "None"

TgStage(on, stage, next) ==
    /\ stages' = IF on THEN Append(stages, stage) ELSE stages
    /\ tg_pc' = next
    /\ UNCHANGED <<tgOthers, tgArgs, do_enforce_decrease, radial_parents, tpca>>

\* full_denoising: the neural-net denoiser.
TgNN ==
    /\ tg_pc = "nn"
    /\ TgStage(nn_applied, "nn", "tpca")
\* full_denoising: the temporal PCA.
TgTpca ==
    /\ tg_pc = "tpca"
    /\ TgStage(tpca_applied, "tpca", "enforce")
\* full_denoising: enforce decrease; the run then goes on to DONE.
TgEnforce ==
    /\ tg_pc = "enforce"
    /\ TgStage(enforce_applied, "enforce", "done")

ToggleNext == TgSetup \/ TgOpenStore \/ TgNN \/ TgTpca \/ TgEnforce

ToggleSpec == ToggleInit /\ [][ToggleNext]_vars

\* ------------------------------------ unit ids of the deconvolved spike train

idOthers == <<cfgVars, geomVars, runVars, pcaVars, toggleVars, dcVars,
             psVars, lateVars>>

\* deconvolution() on n_units templates, for every max_upsample and every
\* size of the templates' amplitudes.
IdInit ==
    /\ max_upsample \in 1..MaxUpsample
    /\ ptp_log2 \in [0..(n_units - 1) -> 0..MaxPtpLog2]
    /\ id_pc = "templates"
    /\ up_factor = 1
    /\ matched = -1
    /\ deconv_unit = -1
    /\ saved_unit = -1
    /\ start_sample = 0
    /\ end_sample = RunLen
    /\ batch_len_samples = buffer + 1
    /\ truth = {}
    /\ GeomOff
    /\ RunOff
    /\ PcaOff
    /\ ToggleOff
    /\ DcOff
    /\ PsOff
    /\ LateOff

\* np.power(4, np.floor(np.log2(np.max(self.temps.ptp(axis=0), axis=0))))
unit_up_factor(i) == 4 ^ ptp_log2[i]

\* upsample_templates_mp: the up_factor the ids are built with.
upsample_templates_mp(upsample) ==
    IF upsample # 1
    THEN LET m == CHOOSE x \in {unit_up_factor(i) : i \in DOMAIN ptp_log2} :
                     \A i \in DOMAIN ptp_log2 : unit_up_factor(i) <= x
         IN  Min(upsample, m)
    ELSE upsample

\* self.unit_up_factor[i] as upsample_templates_mp leaves it: cut to
\* max_upsample and raised to 1, or 1 for every unit when upsample = 1.
capped_unit_up_factor(i) ==
    IF max_upsample # 1
    THEN Max(1, Min(unit_up_factor(i), max_upsample))
    ELSE 1

\* skip = self.up_factor // u_factor
skip(i) == up_factor \div capped_unit_up_factor(i)

\* np.arange(0, n, step).repeat(step), 1-based.
arange_repeat(n, step) ==
    [k \in 1..(((n + step - 1) \div step) * step) |-> ((k - 1) \div step) * step]

\* The ids upsample_templates_mp writes to self.up_up_map[u_idx : u_idx +
\* up_factor] for unit i: u_idx + np.arange(0, up_factor, skip).repeat(skip).
up_up_map_block(i) ==
    LET ids == arange_repeat(up_factor, skip(i))
    IN  [k \in DOMAIN ids |-> i * up_factor + ids[k]]

\* tot_temps_so_far when get_sparse_upsampled_templates reaches unit i.
RECURSIVE tot_temps_so_far(_)
tot_temps_so_far(i) ==
    IF i = 0 THEN 0
    ELSE tot_temps_so_far(i - 1) + capped_unit_up_factor(i - 1)

\* The part of deconv_id_sparse_temp_map appended for unit i:
\* np.arange(unit_up_factor[i]).repeat(skip) + tot_temps_so_far
sparse_map_block(i) ==
    [k \in 1..(capped_unit_up_factor(i) * skip(i)) |->
        ((k - 1) \div skip(i)) + tot_temps_so_far(i)]

\* MatchPursuitObjectiveUpsample.__init__: self.upsample_templates_mp(upsample)
IdUpsample ==
    /\ id_pc = "templates"
    /\ up_factor' = upsample_templates_mp(max_upsample)
    /\ id_pc' = "match"
    /\ UNCHANGED <<idOthers, max_upsample, ptp_log2, matched, deconv_unit,
                   saved_unit>>

\* np.append(np.arange(radius, -1, -1), (factor - 1) - np.arange(radius)),
\* as a 1-based sequence.
peak_to_template_idx(factor) ==
    LET radius == (factor \div 2) + (factor % 2)
    IN  [k \in 1..(2 * radius + 1) |->
            IF k <= radius + 1 THEN radius - (k - 1)
            ELSE (factor - 1) - (k - radius - 2)]

\* find_peaks for one peak: the row of the objective gives the original unit,
\* high_res_peak the shifted template (any shift_idx can be the best, or the
\* spike is not valid and keeps the default), and the id is spike_ids *
\* up_factor (+ upsampled_template_idx).
IdFindPeaks ==
    /\ id_pc = "match"
    /\ \E unit \in DOMAIN ptp_log2 :
          /\ matched' = unit
          /\ \E upsampled_template_idx \in
                    {0} \cup (IF up_factor = 1 THEN {}
                              ELSE Range(peak_to_template_idx(up_factor))) :
                deconv_unit' = unit * up_factor + upsampled_template_idx
    /\ id_pc' = "save"
    /\ UNCHANGED <<idOthers, max_upsample, ptp_log2, up_factor, saved_unit>>

\* deconvolution(): spike_train[:, 1] = np.int32(spike_train[:, 1] / max_upsample)
IdSave ==
    /\ id_pc = "save"
    /\ saved_unit' = deconv_unit \div max_upsample
    /\ id_pc' = "saved"
    /\ UNCHANGED <<idOthers, max_upsample, ptp_log2, up_factor, matched,
                   deconv_unit>>

IdNext == IdUpsample \/ IdFindPeaks \/ IdSave

IdSpec == IdInit /\ [][IdNext]_vars

\* --------------------------- MatchPursuitObjectiveUpsample.run(), upsample=1

dcOthers == <<cfgVars, geomVars, runVars, pcaVars, toggleVars, idVars,
             psVars, lateVars>>

Units == 0..(n_units - 1)

\* self.obj_len = self.data_len + self.n_time - 1
obj_len(batch_id) == mp_data_rows(batch_id) + n_time - 1
ObjTimes(batch_id) == 0..(obj_len(batch_id) - 1)

\* self.norm[i]: the templates are taken to be n_time samples of 1 on one
\* channel, the same for every unit.
norm(i) == n_time

\* self.pairwise_conv[i][v], over conv_res_len = 2 * n_time - 1 lags (0-based
\* function): the full autocorrelation of a template for v = i, and an
\* overlap of one sample with every other unit.
pairwise_conv(i, v) ==
    [l \in 0..(2 * n_time - 2) |->
        LET d == IF l < n_time - 1 THEN n_time - 1 - l ELSE l - (n_time - 1)
        IN  IF i = v THEN n_time - d
            ELSE IF d = 0 THEN 1 ELSE 0]

\* self.unit_overlap[i]: every template is visible on the shared channel.
unit_overlap(i) == Units

\* no_amplitude_scaling = lambd is None or lambd == 0
no_amplitude_scaling == lambd = 0

\* self.adjusted_refrac_radius: 10, for templates of 121 samples.  It is
\* scaled with the templates: the refractory window stays narrower than a
\* template and inside the objective, as it is there.
adjusted_refrac_radius == n_time - 1

\* self.refrac_radius = self.n_time - 1
refrac_radius == n_time - 1

PosInf == -NegInf

\* 1 / self.lambd, for lambd = 1.
inv_lambd == IF no_amplitude_scaling THEN 0 ELSE 1 \div lambd

\* norm + 1 / lambd, the divisor of the objective and of the scalings.
denom(i) == norm(i) + inv_lambd

\* The floats are kept exactly, as integers: with amplitude scaling every
\* pass divides by denom once, so conv_result and the scalings are counted
\* in units of 1 / denom^MaxPasses and the objective, the square of
\* conv_result + 1 / lambd over denom, in units of 1 / (conv_unit^2 * denom).
conv_unit == IF no_amplitude_scaling THEN 1 ELSE denom(0) ^ MaxPasses
obj_unit == IF no_amplitude_scaling THEN 1 ELSE conv_unit * conv_unit * denom(0)

\* The values of self.conv_result that compute_objective can produce from a
\* batch of data: noise (-1) but for at most max_bumps cells, which hold the
\* match of one spike (norm) or of a larger one.
ConvValues == {n_time, 2 * n_time + 1}
ConvCells(batch_id) == Units \X ObjTimes(batch_id)
BumpSets(batch_id, max_bumps) ==
    {B \in SUBSET ConvCells(batch_id) : Cardinality(B) <= max_bumps}
ConvResults(batch_id, max_bumps) ==
    UNION {
        {[u \in Units |-> [t \in ObjTimes(batch_id) |->
                conv_unit * (IF <<u, t>> \in B THEN h[<<u, t>>] ELSE -1)]] :
            h \in [B -> ConvValues]} :
        B \in BumpSets(batch_id, max_bumps)}

\* compute_objective: 2 * conv_result - norm with no amplitude scaling, else
\* np.square(conv_result + 1 / lambd) / (norm + 1 / lambd), cell by cell.
objective(c, u) ==
    IF c = NegInf
    THEN (IF no_amplitude_scaling THEN NegInf ELSE PosInf)
    ELSE IF no_amplitude_scaling THEN 2 * c - norm(u)
         ELSE (c + conv_unit * inv_lambd) * (c + conv_unit * inv_lambd)

compute_objective(conv) ==
    [u \in DOMAIN conv |-> [t \in DOMAIN conv[u] |-> objective(conv[u][t], u)]]

\* run() of an object built with lambd, on a recording of two batches.
DcInit ==
    /\ lambd \in 0..1
    /\ dc_pc = "load"
    /\ dc_batch = 0
    /\ conv_result = <<>>
    /\ obj = <<>>
    /\ ctr = 0
    /\ dec_spike_train = <<>>
    /\ dec_scalings = <<>>
    /\ dist_metric = <<>>
    /\ saved = <<>>
    /\ returned = "None"
    /\ start_sample = 0
    /\ batch_len_samples = mp_buffer + 1
    /\ end_sample = 2 * (mp_buffer + 1)
    /\ truth = {}
    /\ GeomOff
    /\ RunOff
    /\ PcaOff
    /\ ToggleOff
    /\ IdOff
    /\ PsOff
    /\ LateOff

\* run_batch up to the loop: read_data and np.pad, update_data (which
\* empties dec_spike_train and dist_metric) and compute_objective.
DcLoad ==
    /\ dc_pc = "load"
    /\ mp_shape_assert(dc_batch)
    /\ \E conv \in ConvResults(dc_batch, MaxBumps) :
          /\ conv_result' = conv
          /\ obj' = compute_objective(conv)
    /\ dec_spike_train' = <<>>
    /\ dist_metric' = <<>>
    /\ ctr' = 0
    /\ saved' = <<>>
    /\ dc_pc' = "loop"
    /\ UNCHANGED <<dcOthers, dc_batch, lambd, dec_scalings, returned>>

\* np.max(self.obj, axis=0)
max_across_temp(o) ==
    [t \in DOMAIN o[0] |->
        CHOOSE m \in {o[u][t] : u \in DOMAIN o} :
            \A u \in DOMAIN o : o[u][t] <= m]

clip(i, lo, hi) == Max(lo, Min(hi, i))

\* signal.argrelmax(x[lo:hi], order)[0] + lo : the indices strictly above
\* their neighbours up to `order` away, neighbours taken with mode="clip".
argrelmax(x, lo, hi, order) ==
    {i \in lo..(hi - 1) :
        \A shift \in 1..order :
            /\ x[i] > x[clip(i + shift, lo, hi - 1)]
            /\ x[i] > x[clip(i - shift, lo, hi - 1)]}

\* np.argmax(self.obj[:, t], axis=0): the first unit with the largest value.
argmax_unit(o, t) ==
    CHOOSE u \in DOMAIN o :
        /\ \A v \in DOMAIN o : o[v][t] <= o[u][t]
        /\ \A v \in DOMAIN o : v < u => o[v][t] < o[u][t]

\* (conv_result[ids[j], times[j]] + 1 / lambd) / (norm[ids[i]] + 1 / lambd)
scaling(conv, p, i, j) ==
    IF conv[p[j][2]][p[j][1]] = NegInf THEN NegInf
    ELSE (conv[p[j][2]][p[j][1]] + conv_unit * inv_lambd) \div denom(p[i][2])

\* The shape of a scalings array.
shape(sc) ==
    IF sc.ndim = 1 THEN <<Len(sc.v)>> ELSE <<Len(sc.v), Len(sc.v)>>

\* find_peaks with up_factor = 1 (high_res_peak keeps every spike, unshifted):
\* the spike train of the pass, in time order, its scalings and the objective
\* at the peaks.  With no amplitude scaling the scalings are n ones; with it
\* they are conv_result[ids, times], n values, over norm[ids], n rows of one
\* value: n rows of n values.
find_peaks(o, conv) ==
    LET x == max_across_temp(o)
        len == Cardinality(DOMAIN x)
        peaks == argrelmax(x, n_time - 1, len - n_time, refrac_radius)
        spike_times ==
            AscendingSeq({t \in peaks : x[t] > threshold * obj_unit})
        n == Len(spike_times)
        p == [k \in 1..n |->
                <<spike_times[k], argmax_unit(o, spike_times[k])>>]
    IN  [spt |-> [k \in 1..n |-> <<p[k][1] - (n_time - 1), p[k][2]>>],
         scalings |->
            IF no_amplitude_scaling
            THEN [ndim |-> 1, v |-> [k \in 1..n |-> 1]]
            ELSE [ndim |-> 2,
                  v |-> [i \in 1..n |-> [j \in 1..n |-> scaling(conv, p, i, j)]]],
         dist_met |-> [k \in 1..n |-> x[spike_times[k]]]]

\* The pass finds no spike: break.
DcPassBreak ==
    /\ dc_pc = "loop"
    /\ ctr < max_iter
    /\ find_peaks(obj, conv_result).spt = <<>>
    /\ dc_pc' = "sort"
    /\ UNCHANGED <<dcOthers, dc_batch, lambd, conv_result, obj, ctr,
                   dec_spike_train, dec_scalings, dist_metric, saved, returned>>

\* The pass finds spikes, and np.append(self.dec_scalings, scalings, axis=0)
\* raises ValueError for arrays of different numbers of dimensions.
DcPassRaise ==
    /\ dc_pc = "loop"
    /\ ctr < max_iter
    /\ LET found == find_peaks(obj, conv_result)
       IN  /\ found.spt # <<>>
           /\ ~np_concatenate(<<<<Len(dec_scalings)>>, shape(found.scalings)>>).ok
           /\ dec_spike_train' = dec_spike_train \o found.spt
    /\ dc_pc' = "raised"
    /\ UNCHANGED <<dcOthers, dc_batch, lambd, conv_result, obj, ctr,
                   dec_scalings, dist_metric, saved, returned>>

\* The objective cells that enforce_refractory sets to -inf for a spike train:
\* time_idx[:, 1:-1] of the window -adjusted_refrac_radius..adjusted_refrac_radius
\* around the spike's index in the objective, on the spike's unit.
refractory_cells(spt) ==
    {<<spt[k][2], spt[k][1] + n_time - 1 + w>> :
        k \in DOMAIN spt,
        w \in (1 - adjusted_refrac_radius)..(adjusted_refrac_radius - 1)}

enforce_refractory(o, spt) ==
    [u \in DOMAIN o |-> [t \in DOMAIN o[u] |->
        IF <<u, t>> \in refractory_cells(spt) THEN NegInf ELSE o[u][t]]]

\* What np.subtract.at takes from self.obj[v][t] with no amplitude scaling:
\* 2 * pconv at lag t - time of every spike of the train, all added up.
RECURSIVE subtracted(_, _, _)
subtracted(spt, v, t) ==
    IF spt = <<>> THEN 0
    ELSE LET time == Head(spt)[1]
             i == Head(spt)[2]
             l == t - time
         IN  (IF v \in unit_overlap(i) /\ l \in 0..(2 * n_time - 2)
              THEN 2 * pairwise_conv(i, v)[l] ELSE 0)
             + subtracted(Tail(spt), v, t)

\* subtract_spike_train with no amplitude scaling; -inf stays -inf.
subtract_spike_train(o, spt) ==
    enforce_refractory(
        [u \in DOMAIN o |-> [t \in DOMAIN o[u] |->
            IF o[u][t] = NegInf THEN NegInf
            ELSE o[u][t] - subtracted(spt, u, t)]],
        spt)

\* The pass finds spikes: they are appended, subtracted from the objective
\* and put in their refractory period.
DcPassAppend ==
    /\ dc_pc = "loop"
    /\ ctr < max_iter
    /\ LET found == find_peaks(obj, conv_result)
       IN  /\ found.spt # <<>>
           /\ np_concatenate(<<<<Len(dec_scalings)>>, shape(found.scalings)>>).ok
           /\ dec_spike_train' = dec_spike_train \o found.spt
           /\ dec_scalings' = dec_scalings \o found.scalings.v
           /\ obj' = subtract_spike_train(obj, found.spt)
           /\ dist_metric' = dist_metric \o found.dist_met
    /\ ctr' = ctr + 1
    /\ UNCHANGED <<dcOthers, dc_pc, dc_batch, lambd, conv_result, saved,
                   returned>>

\* while tot_max > self.threshold and ctr < self.max_iter: tot_max stays
\* np.inf, so the loop condition fails only through ctr.
DcLoopEnd ==
    /\ dc_pc = "loop"
    /\ ~(ctr < max_iter)
    /\ dc_pc' = "sort"
    /\ UNCHANGED <<dcOthers, dc_batch, lambd, conv_result, obj, ctr,
                   dec_spike_train, dec_scalings, dist_metric, saved, returned>>

\* np.argsort(self.dec_spike_train[:, 0]) as 1-based positions (ties keep
\* their order).
RECURSIVE argsort_time(_, _)
argsort_time(spt, left) ==
    IF left = {} THEN <<>>
    ELSE LET k == CHOOSE a \in left : \A b \in left :
                      \/ spt[a][1] < spt[b][1]
                      \/ spt[a][1] = spt[b][1] /\ a <= b
         IN  <<k>> \o argsort_time(spt, left \ {k})

\* a[idx]
take(a, idx) == [k \in DOMAIN idx |-> a[idx[k]]]

\* np.where(np.logical_and(a[:, 0] >= lo, a[:, 0] < hi))[0] as 1-based
\* positions.
where_inside(a, lo, hi) ==
    AscendingSeq({k \in DOMAIN a : a[k][1] >= lo /\ a[k][1] < hi})

\* The end of run_batch: the spike train is sorted by time and cut to the
\* centre of the batch, dec_scalings is indexed with the same positions, the
\* times are made absolute, np.savez writes the three arrays and the method
\* returns None.
DcSave ==
    /\ dc_pc = "sort"
    /\ LET idx == argsort_time(dec_spike_train, DOMAIN dec_spike_train)
           sorted_st == take(dec_spike_train, idx)
           sorted_sc == take(dec_scalings, idx)
           subtract_t == IF mp_pad_right(dc_batch) > 0
                         THEN mp_buffer + n_time ELSE mp_buffer
           idx2 == where_inside(sorted_st, mp_buffer,
                                mp_data_rows(dc_batch) - subtract_t)
           batch_offset == mp_s_start(dc_batch) - mp_buffer
           cut_st == take(sorted_st, idx2)
       IN  /\ dec_spike_train' =
                [k \in DOMAIN cut_st |->
                    <<cut_st[k][1] + batch_offset, cut_st[k][2]>>]
           /\ dec_scalings' = take(sorted_sc, idx2)
    /\ saved' = [spike_train |-> dec_spike_train',
                 scalings |-> dec_scalings',
                 dist_metric |-> dist_metric]
    /\ returned' = "None"
    /\ dc_pc' = "saved"
    /\ UNCHANGED <<dcOthers, dc_batch, lambd, conv_result, obj, ctr,
                   dist_metric>>

\* run(): the next batch_id, on the same object.
DcNextBatch ==
    /\ dc_pc = "saved"
    /\ dc_batch + 1 < n_jobs_total
    /\ dc_batch' = dc_batch + 1
    /\ dc_pc' = "load"
    /\ UNCHANGED <<dcOthers, lambd, conv_result, obj, ctr, dec_spike_train,
                   dec_scalings, dist_metric, saved, returned>>

DcNext ==
    \/ DcLoad
    \/ DcPassBreak
    \/ DcPassRaise
    \/ DcPassAppend
    \/ DcLoopEnd
    \/ DcSave
    \/ DcNextBatch

DcSpec == DcInit /\ [][DcNext]_vars

\* ------------- find_peaks and subtract_spike_train called in turn, upsample=1

psOthers == <<cfgVars, geomVars, runVars, pcaVars, toggleVars, idVars,
             lateVars>>

\* An object built with lambd whose data is the first batch of a recording;
\* the bookkeeping of run_batch is not used.
PsInit ==
    /\ lambd \in 0..1
    /\ ps_pc = "objective"
    /\ ps_spt = <<>>
    /\ ps_scalings = <<>>
    /\ ps_arg = <<>>
    /\ ps_accepted = <<>>
    /\ ps_conv_before = <<>>
    /\ ps_obj_before = <<>>
    /\ dc_pc = "off"
    /\ dc_batch = 0
    /\ conv_result = <<>>
    /\ obj = <<>>
    /\ ctr = 0
    /\ dec_spike_train = <<>>
    /\ dec_scalings = <<>>
    /\ dist_metric = <<>>
    /\ saved = <<>>
    /\ returned = "None"
    /\ start_sample = 0
    /\ batch_len_samples = mp_buffer + n_time
    /\ end_sample = 2 * (mp_buffer + n_time)
    /\ truth = {}
    /\ GeomOff
    /\ RunOff
    /\ PcaOff
    /\ ToggleOff
    /\ IdOff
    /\ LateOff

psKept == <<psOthers, dc_pc, dc_batch, lambd, dec_spike_train, dec_scalings,
            dist_metric, saved, returned>>

\* compute_objective()
PsComputeObjective ==
    /\ ps_pc = "objective"
    /\ \E conv \in ConvResults(dc_batch, MaxPassBumps) :
          /\ conv_result' = conv
          /\ obj' = compute_objective(conv)
    /\ ps_pc' = "find"
    /\ UNCHANGED <<psKept, ctr, ps_spt, ps_scalings, ps_arg, ps_accepted,
                   ps_conv_before, ps_obj_before>>

\* spt, scalings, dist_met = find_peaks(); ctr counts the calls.
PsFindPeaks ==
    /\ ps_pc = "find"
    /\ ctr < MaxPasses
    /\ LET found == find_peaks(obj, conv_result)
       IN  /\ ps_spt' = found.spt
           /\ ps_scalings' = found.scalings
           /\ ps_accepted' = Append(ps_accepted, found.spt)
           /\ ps_pc' = IF found.spt = <<>> THEN "done" ELSE "subtract"
    /\ ctr' = ctr + 1
    /\ UNCHANGED <<psKept, conv_result, obj, ps_arg, ps_conv_before,
                   ps_obj_before>>

\* np.unique(spt[:, 1])
present_units(spt) == AscendingSeq({spt[k][2] : k \in DOMAIN spt})

\* np.flatnonzero(spt[:, 1] == i), 1-based
in_unit(spt, i) == AscendingSeq({k \in DOMAIN spt : spt[k][2] = i})

\* The amplitude-scaling branch of subtract_spike_train for the spikes of
\* unit i.  pconv[..., None] * scalings[in_unit] has, at lag a and column b,
\* pconv[a] * scalings[in_unit][.., b] (NumPy broadcasting: possible for
\* 2-d scalings only when in_unit has 1 or conv_res_len entries); reshape
\* lays it out as a * columns + b; np.subtract.at pairs that, position by
\* position, with the cells spt_idx.ravel(), spike * conv_res_len + lag
\* (possible only when both have the same length), and accumulates.  Then
\* obj is recomputed from conv_result on those cells, with norm[i].
subtract_unit(conv, o, spt, sc, i) ==
    LET conv_res_len == 2 * n_time - 1
        own_rows == in_unit(spt, i)
        columns == IF sc.ndim = 1 THEN Len(own_rows) ELSE Len(spt)
        sx(a, b) ==
            IF sc.ndim = 1 THEN sc.v[own_rows[b + 1]]
            ELSE sc.v[own_rows[IF Len(own_rows) = 1 THEN 1 ELSE a + 1]][b + 1]
        to_subtract(v, c) ==
            pairwise_conv(i, v)[c \div columns]
                * sx(c \div columns, c % columns)
        cell(c) == spt[own_rows[(c \div conv_res_len) + 1]][1] + (c % conv_res_len)
        cells == {cell(c) : c \in 0..(conv_res_len * Len(own_rows) - 1)}
        removed(v, t) ==
            LET acc[c \in 0..(conv_res_len * Len(own_rows))] ==
                    IF c = 0 THEN 0
                    ELSE acc[c - 1]
                         + (IF cell(c - 1) = t THEN to_subtract(v, c - 1)
                            ELSE 0)
            IN  acc[conv_res_len * Len(own_rows)]
        new_conv ==
            [v \in DOMAIN conv |-> [t \in DOMAIN conv[v] |->
                IF v \in unit_overlap(i) /\ t \in cells /\ conv[v][t] # NegInf
                THEN conv[v][t] - removed(v, t)
                ELSE conv[v][t]]]
    IN  IF \/ sc.ndim = 2 /\ Len(own_rows) \notin {1, conv_res_len}
           \/ conv_res_len * columns # conv_res_len * Len(own_rows)
        THEN [ok |-> FALSE, conv |-> conv, obj |-> o]
        ELSE [ok |-> TRUE,
              conv |-> new_conv,
              obj |-> [v \in DOMAIN o |-> [t \in DOMAIN o[v] |->
                          IF v \in unit_overlap(i) /\ t \in cells
                          THEN objective(new_conv[v][t], i)
                          ELSE o[v][t]]]]

\* for i in present_units: ... , one unit after the other.
RECURSIVE subtract_scaled(_, _, _, _, _)
subtract_scaled(conv, o, spt, sc, units) ==
    IF units = <<>> THEN [ok |-> TRUE, conv |-> conv, obj |-> o]
    ELSE LET r == subtract_unit(conv, o, spt, sc, Head(units))
         IN  IF r.ok THEN subtract_scaled(r.conv, r.obj, spt, sc, Tail(units))
             ELSE r

\* One scaling per spike: the spike's own, from the scalings of find_peaks.
own_scalings(sc) ==
    IF sc.ndim = 1 THEN sc
    ELSE [ndim |-> 1, v |-> [k \in DOMAIN sc.v |-> sc.v[k][k]]]

\* The scalings subtract_spike_train can be given for the spike train of
\* find_peaks: the array find_peaks returned, or one scaling per spike.
scalings_arg(per_spike) ==
    IF per_spike THEN own_scalings(ps_scalings) ELSE ps_scalings

\* subtract_spike_train(spt, scalings) raises ValueError in NumPy.
PsSubtractRaise ==
    /\ ps_pc = "subtract"
    /\ ctr < MaxPasses
    /\ ~no_amplitude_scaling
    /\ \E per_spike \in BOOLEAN :
          /\ ~subtract_scaled(conv_result, obj, ps_spt,
                              scalings_arg(per_spike),
                              present_units(ps_spt)).ok
          /\ ps_arg' = scalings_arg(per_spike)
    /\ ps_conv_before' = conv_result
    /\ ps_obj_before' = obj
    /\ ps_pc' = "raised"
    /\ UNCHANGED <<psKept, ctr, conv_result, obj, ps_spt, ps_scalings,
                   ps_accepted>>

\* subtract_spike_train(spt, scalings), enforce_refractory included.
PsSubtract ==
    /\ ps_pc = "subtract"
    /\ ctr < MaxPasses
    /\ \E per_spike \in BOOLEAN :
          /\ ps_arg' = scalings_arg(per_spike)
          /\ IF no_amplitude_scaling
             THEN /\ obj' = subtract_spike_train(obj, ps_spt)
                  /\ UNCHANGED conv_result
             ELSE LET r == subtract_scaled(conv_result, obj, ps_spt,
                                           scalings_arg(per_spike),
                                           present_units(ps_spt))
                  IN  /\ r.ok
                      /\ obj' = enforce_refractory(r.obj, ps_spt)
                      /\ conv_result' = enforce_refractory(r.conv, ps_spt)
    /\ ps_conv_before' = conv_result
    /\ ps_obj_before' = obj
    /\ ps_pc' = "find"
    /\ UNCHANGED <<psKept, ctr, ps_spt, ps_scalings, ps_accepted>>

PsNext ==
    \/ PsComputeObjective
    \/ PsFindPeaks
    \/ PsSubtractRaise
    \/ PsSubtract

PassSpec == PsInit /\ [][PsNext]_vars

\* ------------------------------------- the ranks of the pool's initializers

\* The state of every other part while one of the later parts is modelled.
LateBase ==
    /\ start_sample = 0
    /\ end_sample = RunLen
    /\ batch_len_samples = buffer + 1
    /\ truth = {}
    /\ GeomOff
    /\ RunOff
    /\ PcaOff
    /\ ToggleOff
    /\ IdOff
    /\ DcOff
    /\ PsOff

rkOthers == <<cfgVars, geomVars, runVars, pcaVars, toggleVars, idVars, dcVars,
             psVars, dasVars, gaVars, coVars, pwVars, hrVars>>

\* subtraction(..., n_jobs=...) on a machine with cpu_count CPUs.
RkInit ==
    /\ rk_pc = "setup"
    /\ n_jobs \in (-1)..MaxJobs
    /\ cpu_count \in 1..MaxCpu
    /\ Executor = "None"
    /\ id_queue = <<>>
    /\ initializing = {}
    /\ rank = <<>>
    /\ blocked = {}
    /\ LateBase
    /\ DasOff
    /\ GaOff
    /\ CoOff
    /\ PwOff
    /\ HrOff

\* Executor = ProcessPoolExecutor if n_jobs else MockPoolExecutor;
\* n_jobs = n_jobs or 1; if n_jobs < 0: n_jobs = cpu_count() - 1
RkSetup ==
    /\ rk_pc = "setup"
    /\ Executor' = IF n_jobs # 0 THEN "ProcessPoolExecutor"
                   ELSE "MockPoolExecutor"
    /\ n_jobs' = LET n == IF n_jobs # 0 THEN n_jobs ELSE 1
                 IN  IF n < 0 THEN cpu_count - 1 ELSE n
    /\ rk_pc' = "put"
    /\ UNCHANGED <<rkOthers, cpu_count, id_queue, initializing, rank, blocked>>

\* for id in range(n_jobs): id_queue.put(id)
RkPut ==
    /\ rk_pc = "put"
    /\ Len(id_queue) < n_jobs
    /\ id_queue' = Append(id_queue, Len(id_queue))
    /\ UNCHANGED <<rkOthers, rk_pc, n_jobs, cpu_count, Executor, initializing,
                   rank, blocked>>

\* The loop of puts is over.
RkPutEnd ==
    /\ rk_pc = "put"
    /\ ~(Len(id_queue) < n_jobs)
    /\ rk_pc' = "executor"
    /\ UNCHANGED <<rkOthers, n_jobs, cpu_count, Executor, id_queue,
                   initializing, rank, blocked>>

\* A get that leaves the id in the queue.
queue_peek(q) == [item |-> Head(q), rest |-> q]

\* Queue.get() / MockQueue's q.pop(0) on a queue that holds an id.
queue_get(q) == [item |-> Head(q), rest |-> Tail(q)]

\* rank = id_queue.get() in the initializer run by worker w.
initializer_get(w) ==
    IF id_queue = <<>>
    THEN /\ blocked' = blocked \cup {w}
         /\ UNCHANGED <<id_queue, rank>>
    ELSE /\ rank' = rank @@ (w :> queue_get(id_queue).item)
         /\ id_queue' = queue_get(id_queue).rest
         /\ UNCHANGED blocked

\* MockPoolExecutor.__init__: initializer(*initargs), once, in the calling
\* process (worker 0).
RkMockExecutor ==
    /\ rk_pc = "executor"
    /\ Executor = "MockPoolExecutor"
    /\ initializing' = {0}
    /\ initializer_get(0)
    /\ rk_pc' = "pool"
    /\ UNCHANGED <<rkOthers, n_jobs, cpu_count, Executor>>

\* ProcessPoolExecutor(max_workers=n_jobs): ValueError unless max_workers > 0.
RkPoolRaise ==
    /\ rk_pc = "executor"
    /\ Executor = "ProcessPoolExecutor"
    /\ n_jobs <= 0
    /\ rk_pc' = "raised"
    /\ UNCHANGED <<rkOthers, n_jobs, cpu_count, Executor, id_queue,
                   initializing, rank, blocked>>

RkPoolOpen ==
    /\ rk_pc = "executor"
    /\ Executor = "ProcessPoolExecutor"
    /\ n_jobs > 0
    /\ rk_pc' = "pool"
    /\ UNCHANGED <<rkOthers, n_jobs, cpu_count, Executor, id_queue,
                   initializing, rank, blocked>>

\* The pool starts one of its at most max_workers processes, which begins
\* _subtraction_batch_init.
RkSpawn(w) ==
    /\ rk_pc = "pool"
    /\ Executor = "ProcessPoolExecutor"
    /\ w \notin initializing
    /\ initializing' = initializing \cup {w}
    /\ UNCHANGED <<rkOthers, rk_pc, n_jobs, cpu_count, Executor, id_queue,
                   rank, blocked>>

\* _subtraction_batch_init in a worker process: rank = id_queue.get()
RkWorkerInit(w) ==
    /\ rk_pc = "pool"
    /\ w \in initializing
    /\ w \notin DOMAIN rank
    /\ w \notin blocked
    /\ initializer_get(w)
    /\ UNCHANGED <<rkOthers, rk_pc, n_jobs, cpu_count, Executor, initializing>>

RkNext ==
    \/ RkSetup
    \/ RkPut
    \/ RkPutEnd
    \/ RkMockExecutor
    \/ RkPoolRaise
    \/ RkPoolOpen
    \/ \E w \in 1..n_jobs : RkSpawn(w)
    \/ \E w \in 1..n_jobs : RkWorkerInit(w)

RankSpec == RkInit /\ [][RkNext]_vars

\* ------------------------------------------------------ detect_and_subtract

dasOthers == <<cfgVars, geomVars, runVars, pcaVars, toggleVars, idVars,
              dcVars, psVars, rkVars, gaVars, coVars, pwVars, hrVars>>

\* Rows of raw: the inner buffer and 2 * spike_length_samples on both sides.
raw_rows == InnerLen + 4 * spike_length_samples

\* Columns of a waveform: the channels of one row of extract_channel_index.
extract_channels == 3

\* extract_channel_index[c]: the channels next to c in ascending order, then
\* the sentinel n_channels up to extract_channels entries (1-based).
extract_channel_index(c) ==
    LET near == AscendingSeq({d \in 0..(n_channels - 1) :
                                  d - c \in -1..1})
    IN  [j \in 1..extract_channels |->
            IF j <= Len(near) THEN near[j] ELSE n_channels]

\* The spike indices one pass of detect_and_deduplicate can return on the
\* inner buffer: at most MaxDetected spikes, times relative to the inner
\* buffer, sorted by time.
DetectedSets ==
    {S \in SUBSET ((0..(InnerLen - 1)) \X (0..(n_channels - 1))) :
        Cardinality(S) <= MaxDetected}

RECURSIVE sorted_rows(_)
sorted_rows(S) ==
    IF S = {} THEN <<>>
    ELSE LET r == CHOOSE x \in S : \A y \in S :
                      \/ x[1] < y[1]
                      \/ x[1] = y[1] /\ x[2] <= y[2]
         IN  <<r>> \o sorted_rows(S \ {r})

\* A chunk of a recording: silence, or a ramp over time and channels.
DasInit ==
    /\ das_pc = "detect"
    /\ \E kind \in 0..1 :
          raw = [t \in 0..(raw_rows - 1) |->
                    [c \in 0..(n_channels - 1) |-> kind * (10 * t + c)]]
    /\ das_spike_index = <<>>
    /\ das_amp = <<>>
    /\ subtracted_raw = <<>>
    /\ LateBase
    /\ RkOff
    /\ GaOff
    /\ CoOff
    /\ PwOff
    /\ HrOff

\* spike_index = detect.detect_and_deduplicate(raw[start:end].copy(), ...)
DasDetect ==
    /\ das_pc = "detect"
    /\ \E S \in DetectedSets :
          /\ S # {}
          /\ das_spike_index' = sorted_rows(S)
    /\ das_pc' = "denoise"
    /\ UNCHANGED <<dasOthers, raw, das_amp, subtracted_raw>>

\* if not spike_index.size: return [], [], raw, []
DasNothing ==
    /\ das_pc = "detect"
    /\ subtracted_raw' = raw
    /\ das_pc' = "returned"
    /\ UNCHANGED <<dasOthers, raw, das_spike_index, das_amp>>

\* time_ix[s][k] = spike_index[s, 0] + time_range[k], 0-based k
time_ix(s, k) ==
    das_spike_index[s][1] + 2 * spike_length_samples - trough_offset + k

\* chan_ix[s][j] = extract_channel_index[spike_index[s, 1]][j], 1-based j
chan_ix(s, j) == extract_channel_index(das_spike_index[s][2])[j]

\* The denoised waveform of spike s at sample k on its j-th channel, as
\* full_denoising returns it: any amplitude times a fixed shape.
denoised(s, k, j) == das_amp[s] * (k + 1) + j

\* waveforms, tpca_proj = full_denoising(waveforms, ...)
DasDenoise ==
    /\ das_pc = "denoise"
    /\ das_amp' \in [DOMAIN das_spike_index -> 1..MaxAmp]
    /\ das_pc' = "subtract"
    /\ UNCHANGED <<dasOthers, raw, das_spike_index, subtracted_raw>>

\* padded_raw[time_ix, chan_ix] -= waveforms at cell (t, c): the elements
\* are subtracted from the old value and written one after the other, so the
\* last one stays.
np_isub(grid, t, c) ==
    LET per_spike == spike_length_samples * extract_channels
        total == Len(das_spike_index) * per_spike
        acc[m \in 0..total] ==
            IF m = 0 THEN grid[t][c]
            ELSE LET e == m - 1
                     sp == (e \div per_spike) + 1
                     k == (e % per_spike) \div extract_channels
                     j == (e % extract_channels) + 1
                 IN  IF time_ix(sp, k) = t /\ chan_ix(sp, j) = c
                     THEN grid[t][c] - denoised(sp, k, j)
                     ELSE acc[m - 1]
    IN  acc[total]

\* np.subtract.at(padded_raw, (time_ix[:, :, None], chan_ix[:, None, :]),
\* waveforms) at cell (t, c): every element of waveforms whose index pair is
\* (t, c) is subtracted, one after the other.
np_subtract_at(grid, t, c) ==
    LET per_spike == spike_length_samples * extract_channels
        total == Len(das_spike_index) * per_spike
        acc[m \in 0..total] ==
            IF m = 0 THEN grid[t][c]
            ELSE LET e == m - 1
                     sp == (e \div per_spike) + 1
                     k == (e % per_spike) \div extract_channels
                     j == (e % extract_channels) + 1
                 IN  IF time_ix(sp, k) = t /\ chan_ix(sp, j) = c
                     THEN acc[m - 1] - denoised(sp, k, j)
                     ELSE acc[m - 1]
    IN  acc[total]

\* padded_raw = np.pad(raw, [(0, 0), (0, 1)], ...); np.subtract.at(...);
\* subtracted_raw = padded_raw[:, :-1]
DasSubtract ==
    /\ das_pc = "subtract"
    /\ subtracted_raw' =
          [t \in DOMAIN raw |-> [c \in DOMAIN raw[t] |->
              np_subtract_at(raw, t, c)]]
    /\ das_pc' = "returned"
    /\ UNCHANGED <<dasOthers, raw, das_spike_index, das_amp>>

DasNext ==
    \/ DasDetect
    \/ DasNothing
    \/ DasDenoise
    \/ DasSubtract

DetectSubtractSpec == DasInit /\ [][DasNext]_vars

\* ------------------------------------- deconvolution(): batches and gathering

gaOthers == <<cfgVars, geomVars, runVars, pcaVars, toggleVars, idVars, dcVars,
             psVars, rkVars, dasVars, coVars, pwVars, hrVars>>

\* deconvolution() on a recording of two batches, with lambd = 0 (it passes
\* none) and templates that are not upsampled.
GaInit ==
    /\ ga_pc = "run"
    /\ ga_files = <<>>
    /\ ga_order = <<>>
    /\ deconv_st = <<>>
    /\ start_sample = 0
    /\ batch_len_samples = mp_buffer + n_time
    /\ end_sample = 2 * (mp_buffer + n_time)
    /\ truth = {}
    /\ GeomOff
    /\ RunOff
    /\ PcaOff
    /\ ToggleOff
    /\ IdOff
    /\ DcOff
    /\ PsOff
    /\ RkOff
    /\ DasOff
    /\ CoOff
    /\ PwOff
    /\ HrOff

\* The greedy loop of run_batch with no amplitude scaling: the spike train
\* appended pass after pass until a pass finds nothing or max_iter is reached.
RECURSIVE greedy_loop(_, _, _)
greedy_loop(o, train, passes) ==
    IF ~(passes < max_iter) THEN train
    ELSE LET found == find_peaks(o, <<>>)
         IN  IF found.spt = <<>> THEN train
             ELSE greedy_loop(subtract_spike_train(o, found.spt),
                              train \o found.spt, passes + 1)

\* The end of run_batch: the spike train sorted by time, cut to the centre of
\* the batch and moved to the recording's time.
saved_spike_train(train, batch_id) ==
    LET sorted_st == take(train, argsort_time(train, DOMAIN train))
        subtract_t == IF mp_pad_right(batch_id) > 0
                      THEN mp_buffer + n_time ELSE mp_buffer
        cut_st == take(sorted_st,
                       where_inside(sorted_st, mp_buffer,
                                    mp_data_rows(batch_id) - subtract_t))
        batch_offset == mp_s_start(batch_id) - mp_buffer
    IN  [k \in DOMAIN cut_st |-> <<cut_st[k][1] + batch_offset, cut_st[k][2]>>]

\* _run_batch(batch_id, fname_out) in a worker of the pool (imap_unordered:
\* the batches end in any order) or in run(): the file of the batch is
\* written.
GaRunBatch(batch_id) ==
    /\ ga_pc = "run"
    /\ batch_id \notin DOMAIN ga_files
    /\ mp_shape_assert(batch_id)
    /\ \E conv \in ConvResults(batch_id, MaxBumps) :
          ga_files' = ga_files @@
              (batch_id :> saved_spike_train(
                  greedy_loop(compute_objective(conv), <<>>, 0), batch_id))
    /\ ga_order' = Append(ga_order, batch_id)
    /\ UNCHANGED <<gaOthers, ga_pc, deconv_st>>

\* Every batch has ended: the pool is left.
GaPoolEnd ==
    /\ ga_pc = "run"
    /\ DOMAIN ga_files = BatchIds
    /\ ga_pc' = "gather"
    /\ UNCHANGED <<gaOthers, ga_files, ga_order, deconv_st>>

\* The batch ids in the order the batches ended.
ended_ids == ga_order

\* for batch_id in range(mp_object.n_batches)
gather_ids == [k \in 1..n_jobs_total |-> k - 1]

RECURSIVE concatenate_files(_)
concatenate_files(ids) ==
    IF ids = <<>> THEN <<>>
    ELSE ga_files[Head(ids)] \o concatenate_files(Tail(ids))

\* deconv_st = np.concatenate([np.load(fname_out)["spike_train"] ...])
GaGather ==
    /\ ga_pc = "gather"
    /\ deconv_st' = concatenate_files(gather_ids)
    /\ ga_pc' = "gathered"
    /\ UNCHANGED <<gaOthers, ga_files, ga_order>>

GaNext ==
    \/ \E batch_id \in BatchIds : GaRunBatch(batch_id)
    \/ GaPoolEnd
    \/ GaGather

GatherSpec == GaInit /\ [][GaNext]_vars

\* ----------------------------------- compute_objective and its np.empty array

coOthers == <<cfgVars, geomVars, runVars, pcaVars, toggleVars, idVars, psVars,
             rkVars, dasVars, gaVars, pwVars, hrVars>>

coKept == <<ctr, dec_spike_train, dec_scalings, dist_metric, saved, returned,
           dc_pc>>

\* run() of an object built with lambd, on a recording of two batches.
CoInit ==
    /\ co_pc = "update_data"
    /\ co_data = <<>>
    /\ lambd \in 0..1
    /\ dc_pc = "off"
    /\ dc_batch = 0
    /\ conv_result = <<>>
    /\ obj = <<>>
    /\ ctr = 0
    /\ dec_spike_train = <<>>
    /\ dec_scalings = <<>>
    /\ dist_metric = <<>>
    /\ saved = <<>>
    /\ returned = "None"
    /\ start_sample = 0
    /\ batch_len_samples = mp_buffer + 1
    /\ end_sample = 2 * (mp_buffer + 1)
    /\ truth = {}
    /\ GeomOff
    /\ RunOff
    /\ PcaOff
    /\ ToggleOff
    /\ IdOff
    /\ PsOff
    /\ RkOff
    /\ DasOff
    /\ GaOff
    /\ PwOff
    /\ HrOff

\* run_batch up to compute_objective: the batch's data is read; co_data is
\* what the convolutions of compute_objective add up to for it.
CoUpdateData ==
    /\ co_pc = "update_data"
    /\ mp_shape_assert(dc_batch)
    /\ co_data' \in ConvResults(dc_batch, 1)
    /\ co_pc' = "compute"
    /\ UNCHANGED <<coOthers, coKept, dc_batch, lambd, conv_result, obj>>

\* What the array np.empty([orig_n_unit, data_len + n_time - 1]) can hold:
\* zeros (fresh memory), the values of the block the previous conv_result
\* occupied, or anything else that was freed.
np_empty(batch_id) ==
    {[u \in Units |-> [t \in ObjTimes(batch_id) |-> g * conv_unit]] :
        g \in {0, 1}}
    \cup (IF conv_result = <<>> THEN {} ELSE {conv_result})

\* compute_objective: self.conv_result = np.empty(...), then for every rank
\* and unit self.conv_result[unit, :] += np.convolve(...); then self.obj.
CoComputeObjective ==
    /\ co_pc = "compute"
    /\ \E storage \in np_empty(dc_batch) :
          conv_result' = [u \in Units |-> [t \in ObjTimes(dc_batch) |->
                              storage[u][t] + co_data[u][t]]]
    /\ obj' = compute_objective(conv_result')
    /\ co_pc' = "computed"
    /\ UNCHANGED <<coOthers, coKept, dc_batch, lambd, co_data>>

\* run(): the next batch_id, on the same object.
CoNextBatch ==
    /\ co_pc = "computed"
    /\ dc_batch + 1 < n_jobs_total
    /\ dc_batch' = dc_batch + 1
    /\ co_pc' = "update_data"
    /\ UNCHANGED <<coOthers, coKept, lambd, conv_result, obj, co_data>>

CoNext ==
    \/ CoUpdateData
    \/ CoComputeObjective
    \/ CoNextBatch

ObjectiveSpec == CoInit /\ [][CoNext]_vars

\* ------------------------------------------------------ pairwise_filter_conv

pwOthers == <<cfgVars, geomVars, runVars, pcaVars, toggleVars, dcVars, psVars,
             rkVars, dasVars, gaVars, coVars, hrVars>>

pwArgs == <<idVars, vis_chan, n_processors, multi_processing>>

\* __init__ up to pairwise_filter_conv(): the templates' amplitudes and
\* visible channels, upsample, and the up_factor upsample_templates_mp made
\* of them.
PwInit ==
    /\ pw_pc = "chunks"
    /\ max_upsample \in 1..MaxConvUpsample
    /\ ptp_log2 \in [0..(n_units - 1) -> 0..MaxPtpLog2]
    /\ up_factor = upsample_templates_mp(max_upsample)
    /\ id_pc = "off"
    /\ matched = -1
    /\ deconv_unit = -1
    /\ saved_unit = -1
    /\ vis_chan \in [0..(n_units - 1) -> SUBSET (0..(VisChans - 1))]
    /\ n_processors \in 1..MaxProcessors
    /\ multi_processing \in BOOLEAN
    /\ pw_files = <<>>
    /\ pw_order = <<>>
    /\ pairwise_table = <<>>
    /\ start_sample = 0
    /\ end_sample = RunLen
    /\ batch_len_samples = buffer + 1
    /\ truth = {}
    /\ GeomOff
    /\ RunOff
    /\ PcaOff
    /\ ToggleOff
    /\ DcOff
    /\ PsOff
    /\ RkOff
    /\ DasOff
    /\ GaOff
    /\ CoOff
    /\ HrOff

\* self.up_up_map[id]
up_up_map(id) ==
    up_up_map_block(id \div up_factor)[(id % up_factor) + 1]

\* np.unique(self.up_up_map)
unique_up_up_map ==
    AscendingSeq({up_up_map(id) : id \in 0..(n_units * up_factor - 1)})

\* self.unit_overlap[unit2, unit1] after np.repeat(..., self.up_factor,
\* axis=0): the templates of unit2's original unit and of unit1 share a
\* visible channel.
overlaps(unit2, unit1) ==
    vis_chan[unit2 \div up_factor] \cap vis_chan[unit1] # {}

\* np.where(unit_overlap[unit2, :])[0], ascending
overlapping(unit2) ==
    AscendingSeq({unit1 \in DOMAIN vis_chan : overlaps(unit2, unit1)})

\* np.array_split(a, n)[k], 0-based k: the first len(a) % n parts hold
\* len(a) // n + 1 entries, the others len(a) // n.
array_split(a, n, k) ==
    LET each == Len(a) \div n
        extras == Len(a) % n
        first == k * each + Min(k, extras)
        size == each + (IF k < extras THEN 1 ELSE 0)
    IN  SubSeq(a, first + 1, first + size)

\* `units` as the loading loop sees it: the chunks of np.array_split with a
\* pool, one list of one unit per unit without.
units ==
    IF multi_processing
    THEN [k \in 1..n_processors |->
             array_split(unique_up_up_map, n_processors, k - 1)]
    ELSE [k \in 1..Len(unique_up_up_map) |-> <<unique_up_up_map[k]>>]

\* An entry of pairwise_conv: None, or the table a chunk file held.
None == [is_none |-> TRUE, rows |-> <<>>]

table(rows_) == [is_none |-> FALSE, rows |-> rows_]

\* parallel_conv_filter for one unit2: pairwise_conv[j, :] is the
\* convolution of unit2's template with that of the j-th overlapping unit1,
\* written here by the two units it belongs to.
conv_rows(unit2) ==
    [j \in DOMAIN overlapping(unit2) |-> <<unit2, overlapping(unit2)[j]>>]

\* parallel_conv_filter((proc_index, unit_array), ...): the list of the
\* chunk's tables is pickled to temp_temp_chunk_<proc_index>.pkl.  The
\* chunks of a pool end in any order (imap_unordered); without a pool they
\* are computed one after the other.
PwChunk(proc_index) ==
    /\ pw_pc = "chunks"
    /\ proc_index \notin DOMAIN pw_files
    /\ multi_processing \/ proc_index = Len(pw_order)
    /\ pw_files' = pw_files @@
          (proc_index :> [k \in DOMAIN units[proc_index + 1] |->
                             table(conv_rows(units[proc_index + 1][k]))])
    /\ pw_order' = Append(pw_order, proc_index)
    /\ UNCHANGED <<pwOthers, pwArgs, pw_pc, pairwise_table>>

\* Every chunk has been computed.
PwChunksEnd ==
    /\ pw_pc = "chunks"
    /\ DOMAIN pw_files = 0..(Len(units) - 1)
    /\ pw_pc' = "load"
    /\ UNCHANGED <<pwOthers, pwArgs, pw_files, pw_order, pairwise_table>>

\* The chunks in the order they ended.
ended_chunks == pw_order

\* for i in range(len(units))
load_ids == [k \in 1..Len(units) |-> k - 1]

\* temp_array.extend(pickle.load(f)) for the chunk files ids, in that order
RECURSIVE temp_array(_)
temp_array(ids) ==
    IF ids = <<>> THEN <<>>
    ELSE pw_files[Head(ids)] \o temp_array(Tail(ids))

\* The chunk files are loaded and removed; pairwise_conv is a list of None,
\* filled at np.unique(self.up_up_map) from temp_array in turn, and saved.
PwLoad ==
    /\ pw_pc = "load"
    /\ pairwise_table' =
          [id \in 0..(n_units * up_factor - 1) |->
              IF \E ctr2 \in DOMAIN unique_up_up_map :
                     unique_up_up_map[ctr2] = id
              THEN temp_array(load_ids)[
                       CHOOSE ctr2 \in DOMAIN unique_up_up_map :
                           unique_up_up_map[ctr2] = id]
              ELSE None]
    /\ pw_files' = <<>>
    /\ pw_pc' = "saved"
    /\ UNCHANGED <<pwOthers, pwArgs, pw_order>>

PwNext ==
    \/ \E proc_index \in 0..(Len(units) - 1) : PwChunk(proc_index)
    \/ PwChunksEnd
    \/ PwLoad

PairwiseSpec == PwInit /\ [][PwNext]_vars

\* --------------------------- run_batch's loop with upsampled templates

hrOthers == <<cfgVars, geomVars, runVars, pcaVars, toggleVars, psVars,
             rkVars, dasVars, gaVars, coVars, pwVars>>

hrKept == <<hrOthers, idVars, dc_pc, dc_batch, lambd, saved, returned>>

\* An object built with lambd whose templates are upsampled up_factor times,
\* in run_batch on the first batch of a recording.
HrInit ==
    /\ lambd \in 0..1
    /\ up_factor \in 1..MaxUpFactor
    /\ max_upsample = up_factor
    /\ ptp_log2 = [i \in 0..(n_units - 1) |-> 0]
    /\ id_pc = "off"
    /\ matched = -1
    /\ deconv_unit = -1
    /\ saved_unit = -1
    /\ hr_pc = "objective"
    /\ hr_candidates = <<>>
    /\ hr_spt = <<>>
    /\ hr_scalings = <<>>
    /\ hr_obj_before = <<>>
    /\ dc_pc = "off"
    /\ dc_batch = 0
    /\ conv_result = <<>>
    /\ obj = <<>>
    /\ ctr = 0
    /\ dec_spike_train = <<>>
    /\ dec_scalings = <<>>
    /\ dist_metric = <<>>
    /\ saved = <<>>
    /\ returned = "None"
    /\ start_sample = 0
    /\ batch_len_samples = mp_buffer + n_time
    /\ end_sample = 2 * (mp_buffer + n_time)
    /\ truth = {}
    /\ GeomOff
    /\ RunOff
    /\ PcaOff
    /\ ToggleOff
    /\ PsOff
    /\ RkOff
    /\ DasOff
    /\ GaOff
    /\ CoOff
    /\ PwOff

\* The values of self.conv_result at the spikes of the data: the match of a
\* spike larger than the template, and of a still larger one.
UpConvValues == {2 * n_time + 1, 3 * n_time + 2}

UpConvResults(batch_id) ==
    UNION {
        {[u \in Units |-> [t \in ObjTimes(batch_id) |->
                conv_unit * (IF <<u, t>> \in B THEN h[<<u, t>>] ELSE -1)]] :
            h \in [B -> UpConvValues]} :
        B \in BumpSets(batch_id, MaxUpBumps)}

\* update_data and compute_objective
HrComputeObjective ==
    /\ hr_pc = "objective"
    /\ \E conv \in UpConvResults(dc_batch) :
          /\ conv_result' = conv
          /\ obj' = compute_objective(conv)
    /\ hr_pc' = "loop"
    /\ UNCHANGED <<hrKept, ctr, dec_spike_train, dec_scalings, dist_metric,
                   hr_candidates, hr_spt, hr_scalings, hr_obj_before>>

\* radius = factor // 2 + factor % 2
radius == (up_factor \div 2) + (up_factor % 2)

\* A jitter table of 0 and 2.
wide_time_jitter(shift_idx) == IF shift_idx <= radius THEN 0 ELSE 2

\* self.peak_time_jitter[shift_idx] =
\* np.append([0], np.array([0, 1]).repeat(radius))
peak_time_jitter(shift_idx) == IF shift_idx <= radius THEN 0 ELSE 1

\* find_peaks up to high_res_peak: the peaks of the objective above the
\* threshold, in time order, rows <<spike_times[k], spike_ids[k]>>.
candidates(o) ==
    LET x == max_across_temp(o)
        len == Cardinality(DOMAIN x)
        peaks == argrelmax(x, n_time - 1, len - n_time, refrac_radius)
        spike_times ==
            AscendingSeq({t \in peaks : x[t] > threshold * obj_unit})
    IN  [k \in 1..Len(spike_times) |->
            <<spike_times[k], argmax_unit(o, spike_times[k])>>]

\* np.isinf
isinf(x) == x \in {NegInf, PosInf}

\* high_res_peak's invalid_idx for candidate <<time, unit>>: the first or
\* the last row of peak_window = obj[unit, time + up_window] is infinite.
\* No candidate is invalid when up_factor == 1 (early return).
invalid_idx(o, c) ==
    /\ up_factor # 1
    /\ \/ isinf(o[c[2]][c[1] - radius])
       \/ isinf(o[c[2]][c[1] + radius])

\* The cells high_res_peak turns off:
\* obj[unit_ids[invalid_idx], times[invalid_idx] + arange(-refrac_radius, 1)]
turn_off_idx(o) ==
    {<<c[2], c[1] - w>> : c \in {d \in {candidates(o)[k] : k \in DOMAIN candidates(o)} :
                                   invalid_idx(o, d)},
                         w \in 0..refrac_radius}

turn_off(a, cells) ==
    [u \in DOMAIN a |-> [t \in DOMAIN a[u] |->
        IF <<u, t>> \in cells THEN NegInf ELSE a[u][t]]]

\* shift_idx = np.argmax(high_resolution_peaks[self.zoom_index, :], axis=0),
\* one index into zoom_index per candidate: which one depends on the
\* resampled objective, so every one is taken to be possible.  With
\* up_factor == 1 high_res_peak returns 0, 0 for template and jitter.
shift_choices(n) ==
    IF up_factor = 1 THEN {[k \in 1..n |-> radius]}
    ELSE [1..n -> 0..(2 * radius)]

\* find_peaks, for the shift_idx high_res_peak computed: spike_ids *=
\* up_factor for every candidate, template index and jitter added at
\* valid_idx only; new_spike_train is made of every candidate; the scalings
\* index conv_result and norm with the new spike_ids and spike_times, an
\* IndexError when an id is not a row of conv_result.
find_peaks_up(o, conv, shift_idx) ==
    LET p == candidates(o)
        n == Len(p)
        valid(k) == ~invalid_idx(o, p[k])
        q == [k \in 1..n |->
                <<p[k][1] + (IF valid(k) /\ up_factor # 1
                             THEN peak_time_jitter(shift_idx[k]) ELSE 0),
                  p[k][2] * up_factor
                      + (IF valid(k) /\ up_factor # 1
                         THEN peak_to_template_idx(up_factor)[shift_idx[k] + 1]
                         ELSE 0)>>]
        x == max_across_temp(o)
    IN  [spt |-> [k \in 1..n |-> <<q[k][1] - (n_time - 1), q[k][2]>>],
         index_error |->
            /\ ~no_amplitude_scaling
            /\ \E k \in 1..n : q[k][2] \notin DOMAIN conv,
         scalings |->
            IF no_amplitude_scaling
            THEN [ndim |-> 1, v |-> [k \in 1..n |-> 1]]
            ELSE IF \E k \in 1..n : q[k][2] \notin DOMAIN conv
            THEN [ndim |-> 2, v |-> <<>>]
            ELSE [ndim |-> 2,
                  v |-> [i \in 1..n |-> [j \in 1..n |->
                            scaling(turn_off(conv, turn_off_idx(o)), q, i, j)]]],
         dist_met |->
            LET kept == AscendingSeq({k \in 1..n : valid(k)})
            IN  [j \in DOMAIN kept |-> x[p[kept[j]][1]]],
         obj |-> turn_off(o, turn_off_idx(o)),
         conv |-> IF no_amplitude_scaling THEN conv
                  ELSE turn_off(conv, turn_off_idx(o))]

\* The spike train as subtract_spike_train and enforce_refractory use it:
\* unit_overlap[i] is the row of i's original unit, spike_train[:, 1:2] //
\* self.up_factor is that unit, and the upsampled templates of a unit are
\* taken to have the pairwise_conv of the unit.
orig_units(spt) == [k \in DOMAIN spt |-> <<spt[k][1], spt[k][2] \div up_factor>>]

\* A pass of the loop that finds no spike: break.
HrBreak ==
    /\ hr_pc = "loop"
    /\ ctr < max_iter
    /\ candidates(obj) = <<>>
    /\ hr_candidates' = <<>>
    /\ hr_spt' = <<>>
    /\ hr_scalings' = <<>>
    /\ hr_obj_before' = obj
    /\ hr_pc' = "done"
    /\ UNCHANGED <<hrKept, conv_result, obj, ctr, dec_spike_train,
                   dec_scalings, dist_metric>>

\* find_peaks raises IndexError.
HrIndexError ==
    /\ hr_pc = "loop"
    /\ ctr < max_iter
    /\ candidates(obj) # <<>>
    /\ \E shift_idx \in shift_choices(Len(candidates(obj))) :
          LET found == find_peaks_up(obj, conv_result, shift_idx)
          IN  /\ found.index_error
              /\ obj' = found.obj
              /\ conv_result' = found.conv
    /\ hr_candidates' = candidates(obj)
    /\ hr_spt' = <<>>
    /\ hr_scalings' = <<>>
    /\ hr_obj_before' = obj
    /\ hr_pc' = "IndexError"
    /\ UNCHANGED <<hrKept, ctr, dec_spike_train, dec_scalings, dist_metric>>

\* find_peaks returns spikes, and np.append(self.dec_scalings, scalings,
\* axis=0) raises ValueError for arrays of different numbers of dimensions.
HrPassRaise ==
    /\ hr_pc = "loop"
    /\ ctr < max_iter
    /\ candidates(obj) # <<>>
    /\ \E shift_idx \in shift_choices(Len(candidates(obj))) :
          LET found == find_peaks_up(obj, conv_result, shift_idx)
          IN  /\ ~found.index_error
              /\ ~np_concatenate(<<<<Len(dec_scalings)>>,
                                   shape(found.scalings)>>).ok
              /\ obj' = found.obj
              /\ conv_result' = found.conv
              /\ hr_spt' = found.spt
              /\ hr_scalings' = found.scalings.v
              /\ dec_spike_train' = dec_spike_train \o found.spt
    /\ hr_candidates' = candidates(obj)
    /\ hr_obj_before' = obj
    /\ hr_pc' = "raised"
    /\ UNCHANGED <<hrKept, ctr, dec_scalings, dist_metric>>

\* find_peaks returns spikes; they are appended to the spike train and
\* subtracted from the objective.
HrPass ==
    /\ hr_pc = "loop"
    /\ ctr < max_iter
    /\ candidates(obj) # <<>>
    /\ \E shift_idx \in shift_choices(Len(candidates(obj))) :
          LET found == find_peaks_up(obj, conv_result, shift_idx)
          IN  /\ ~found.index_error
              /\ np_concatenate(<<<<Len(dec_scalings)>>,
                                  shape(found.scalings)>>).ok
              /\ hr_spt' = found.spt
              /\ hr_scalings' = found.scalings.v
              /\ dec_spike_train' = dec_spike_train \o found.spt
              /\ dec_scalings' = dec_scalings \o found.scalings.v
              /\ obj' = subtract_spike_train(found.obj, orig_units(found.spt))
              /\ dist_metric' = dist_metric \o found.dist_met
    /\ hr_candidates' = candidates(obj)
    /\ hr_obj_before' = obj
    /\ ctr' = ctr + 1
    /\ UNCHANGED <<hrKept, hr_pc, conv_result>>

\* while tot_max > self.threshold and ctr < self.max_iter
HrLoopEnd ==
    /\ hr_pc = "loop"
    /\ ctr >= max_iter
    /\ hr_pc' = "done"
    /\ UNCHANGED <<hrKept, conv_result, obj, ctr, dec_spike_train,
                   dec_scalings, dist_metric, hr_candidates, hr_spt,
                   hr_scalings, hr_obj_before>>

HrNext ==
    \/ HrComputeObjective
    \/ HrBreak
    \/ HrIndexError
    \/ HrPassRaise
    \/ HrPass
    \/ HrLoopEnd

UpsampledSpec == HrInit /\ [][HrNext]_vars

\* ---------------------------------------------------------------- claims

NonDecreasing(a) == \A i \in 1..(Len(a) - 1) : a[i] <= a[i + 1]

\* The spike_index rows written for a sequence of batch ids.
RECURSIVE concat_results(_)
concat_results(ids) ==
    IF ids = <<>> THEN <<>>
    ELSE batch_result(Head(ids)).spike_index \o concat_results(Tail(ids))

\* What one uninterrupted invocation leaves in spike_index.
uninterrupted_index == concat_results(AscendingSeq(BatchIds))

\* The store holds exactly the rows `index` in every per-spike table.
StoreIs(index) ==
    /\ spike_index = index
    /\ \A t \in OtherTables : rows[t] = Len(index)

\* A first invocation that reaches DONE leaves uninterrupted_index.
FreshRunIndex == (pc = "done" /\ runs = 1) => StoreIs(uninterrupted_index)

\* C1: a run stopped by an interrupt after the results of k batches were
\* applied (outside the store update, or at its end) and invoked again with
\* overwrite=False ends with the same spike_index and the same table lengths
\* as one uninterrupted run.
C1_ResumeSameAsUninterrupted ==
    (pc = "done" /\ prev_end = "interrupted" /\ ~midwrite)
        => StoreIs(uninterrupted_index)

\* C2: no SIGINT that arrives inside the `with noint` body, the first or a
\* further one, raises KeyboardInterrupt before the body has ended.
C2_InterruptHeldUntilExit == intr_where # "inside"

\* C3: batch results are folded into the store in strictly increasing
\* batch-id order, whatever order the workers finish in: the ids applied by
\* an invocation increase, and the one being applied is above them all.
C3_AppliedInBatchOrder ==
    /\ \A i \in 1..(Len(applied) - 1) : applied[i] < applied[i + 1]
    /\ cur # -1 => \A i \in DOMAIN applied : applied[i] < cur

\* C3 witness: a batch has been applied and a later batch's result is ready
\* while the next batch in order is still with its worker.
C3_Witness ==
    /\ pc = "loop"
    /\ Len(applied) >= 1
    /\ pending # <<>>
    /\ next_job \in running
    /\ \E b \in finished : b > next_job

\* C4: after every batch application, in a fresh and in a resumed run, the
\* stored spike_index is non-decreasing in time.
C4_SortedAfterEveryApplication ==
    (pc \in {"loop", "done"} /\ Len(applied) >= 1) => NonDecreasing(spike_index)

C9_EmptyResultIsNoOp ==
    [][(pc = "update" /\ result.N_new = 0)
          => /\ spike_index' = spike_index
             /\ rows' = rows
             /\ N' = N
             /\ pc' # "raised"]_vars

\* C9 witness: both kinds of empty result have been applied: a batch with no
\* detection at all, and a batch whose detections were all trimmed away.
C9_Witness ==
    /\ \E i \in DOMAIN applied :
          ~batch_detected(applied[i])
    /\ \E j \in DOMAIN applied :
          batch_detected(applied[j]) /\ batch_result(applied[j]).N_new = 0

\* C10: once a batch's result has been applied none of its temporary files
\* remains, and the batch folder is empty at DONE.
C10_TempFilesGone ==
    /\ \A i \in DOMAIN applied :
          \A k \in SpikeFiles \cup {"res"} : <<applied[i], k>> \notin files
    /\ pc = "done" => files = {}

\* The samples of the chunk subtraction_batch saves for batch b:
\* residual[buffer:-buffer].
chunk_len(b) == residual_rows(job_start(b)) - 2 * buffer

RECURSIVE residual_len(_)
residual_len(chunks) ==
    IF chunks = <<>> THEN 0
    ELSE chunk_len(Head(chunks)) + residual_len(Tail(chunks))

\* A first invocation that reaches DONE leaves one chunk per batch, in order.
FreshRunResidual ==
    (pc = "done" /\ runs = 1) =>
        /\ residual = AscendingSeq(BatchIds)
        /\ residual_len(residual) = end_sample - start_sample

\* C11: at DONE the residual file holds exactly one chunk per batch of the
\* processed range, in batch order, and end_sample - start_sample samples,
\* also after the run was interrupted (outside the store update, or at its
\* end) and resumed.
C11_ResidualOneChunkPerBatch ==
    (pc = "done" /\ ~midwrite) =>
        /\ residual = AscendingSeq(BatchIds)
        /\ residual_len(residual) = end_sample - start_sample

\* ---- claims of train_pca

\* The waveforms the sampled windows yield together.
RECURSIVE total_waveforms(_)
total_waveforms(ws) ==
    IF ws = <<>> THEN 0
    ELSE Len(batch_spike_index(Head(ws), truth)) + total_waveforms(Tail(ws))

\* C12: train_pca ends in its "No waveforms found" error exactly when the
\* sampled windows together yield zero waveforms; otherwise it fits and
\* returns a model.
C12_NoWaveformsErrorIffNone ==
    /\ pca_pc = "no_waveforms" => total_waveforms(starts) = 0
    /\ pca_pc \in {"fit", "returned"} => total_waveforms(starts) > 0

\* ---- claims of the denoising switches

\* The stages a run is asked to apply, in pipeline order.
stages_asked ==
    SelectSeq(<<"nn", "tpca", "enforce">>,
              LAMBDA st : \/ st = "nn" /\ do_nn_denoise
                          \/ st = "tpca" /\ n_sec_pca # "None"
                          \/ st = "enforce" /\ enforce_decrease_kind # "none")

\* C13: a run with exactly one of the three stages switched off does not
\* raise, and when its denoising is done it has applied exactly the two
\* remaining stages, in the order NN denoise, temporal PCA, enforce-decrease.
C13_EachStageSwitchesOff ==
    Len(stages_asked) = 2 =>
        /\ tg_pc # "raised"
        /\ tg_pc = "done" => stages = stages_asked

\* ---- claims of the unit ids

\* C16: the unit column saved in spike_train.npy is the original index of
\* the matched unit, for every max_upsample and every template amplitude.
C16_SavedUnitIsOriginalUnit == id_pc = "saved" => saved_unit = matched

\* C23: once the templates are upsampled, every unit's factor is at least 1,
\* at most up_factor and divides it; up_up_map sends the up_factor shift ids
\* of the unit to exactly that many distinct ids, all in the unit's own block
\* of ids; and the sparse-template map has as many entries and as many
\* distinct ids for the unit.
C23_UnitFactorDividesUpFactor ==
    id_pc \in {"match", "save", "saved"} =>
        \A i \in DOMAIN ptp_log2 :
            LET f == capped_unit_up_factor(i)
            IN  /\ 1 <= f
                /\ f <= up_factor
                /\ up_factor % f = 0
                /\ Len(up_up_map_block(i)) = up_factor
                /\ Cardinality(Range(up_up_map_block(i))) = f
                /\ Range(up_up_map_block(i))
                       \subseteq (i * up_factor)..((i + 1) * up_factor - 1)
                /\ Len(sparse_map_block(i)) = up_factor
                /\ Cardinality(Range(sparse_map_block(i))) = f

\* ---- claims of the matching pursuit

\* C14: the greedy loop of run_batch ends after at most max_iter passes and
\* without raising, and every pass that does not end it appends at least one
\* spike.
C14_LoopEndsWithoutRaising ==
    /\ ctr <= max_iter
    /\ dc_pc # "raised"
    /\ dc_pc \in {"loop", "sort"} => Len(dec_spike_train) >= ctr

\* C15: run_batch hands the number of passes to its caller, as its return
\* value or as an entry of the saved output next to the three arrays.
C15_PassCountReachesCaller ==
    dc_pc = "saved" =>
        \/ returned # "None"
        \/ DOMAIN saved \ {"spike_train", "scalings", "dist_metric"} # {}

\* C17: every batch of an object saves one scaling per saved spike, the one
\* computed for it in that batch (1 with no amplitude scaling), and the
\* loop of a batch starts with no scaling of an earlier batch.
C17_ScalingsOfThisBatchOnly ==
    /\ dc_pc = "loop" /\ ctr = 0 => dec_scalings = <<>>
    /\ dc_pc = "saved" =>
          /\ Len(saved.scalings) = Len(saved.spike_train)
          /\ \A i \in DOMAIN saved.scalings : saved.scalings[i] = 1

\* C20: when the loop has ended after fewer than max_iter passes, no entry
\* of the objective exceeds threshold.
C20_NothingAboveThresholdAtExit ==
    dc_pc = "sort" /\ ctr < max_iter =>
        \A u \in DOMAIN obj : \A t \in DOMAIN obj[u] :
            obj[u][t] <= threshold * obj_unit

\* ---- claims of the passes made by hand

\* The spike's own scaling in the scalings subtract_spike_train was given.
own(k) == IF ps_arg.ndim = 1 THEN ps_arg.v[k] ELSE ps_arg.v[k][k]

\* The sum, over the spikes of the pass whose window covers t and whose unit
\* overlaps v, of the spike's PairwiseConv value at lag t - spike time, times
\* the spike's own scaling (scaled) or times 2 (the scale of the objective).
RECURSIVE pconv_sum(_, _, _, _)
pconv_sum(k, v, t, scaled) ==
    IF k = 0 THEN 0
    ELSE LET l == t - ps_spt[k][1]
             i == ps_spt[k][2]
         IN  (IF v \in unit_overlap(i) /\ l \in 0..(2 * n_time - 2)
              THEN pairwise_conv(i, v)[l] * (IF scaled THEN own(k) ELSE 2)
              ELSE 0)
             + pconv_sum(k - 1, v, t, scaled)

\* C18: subtract_spike_train takes from every cell the sum of the
\* PairwiseConv values of the spikes of the pass that cover it: from obj with
\* no amplitude scaling (in the scale of the objective, 2 * conv_result -
\* norm), from conv_result with amplitude scaling and then times the spike's
\* own scaling; also with several spikes of one unit in the pass.  Cells put
\* to -inf by the refractory period are not compared.
C18_SubtractsOwnScaledConv ==
    /\ ps_pc # "raised"
    /\ ps_pc = "find" /\ ps_arg # <<>> =>
          \A v \in DOMAIN obj : \A t \in DOMAIN obj[v] :
              IF no_amplitude_scaling
              THEN obj[v][t] # NegInf =>
                      ps_obj_before[v][t] - obj[v][t]
                          = pconv_sum(Len(ps_spt), v, t, FALSE)
              ELSE conv_result[v][t] # NegInf =>
                      ps_conv_before[v][t] - conv_result[v][t]
                          = pconv_sum(Len(ps_spt), v, t, TRUE)

\* The objective cells enforce_refractory masks for a spike: the refractory
\* window of its unit.
in_refractory_window(earlier, later) ==
    /\ earlier[2] = later[2]
    /\ later[1] - earlier[1] \in
            (1 - adjusted_refrac_radius)..(adjusted_refrac_radius - 1)

\* C19: once a spike of a unit has been accepted, no later pass accepts a
\* spike of that unit inside the refractory window around it, with and
\* without amplitude scaling.
C19_RefractoryWindowStaysClosed ==
    \A a, b \in DOMAIN ps_accepted :
        a < b =>
            \A j \in DOMAIN ps_accepted[a] : \A k \in DOMAIN ps_accepted[b] :
                ~in_refractory_window(ps_accepted[a][j], ps_accepted[b][k])

\* ---- claims of the batch-geometry specification

\* C5: no absolute spike time is persisted by two different batches.
C5_PersistRangesDisjoint ==
    \A p \in persisted : \A q \in persisted : p[2] = q[2] => p[1] = q[1]

\* C6: whatever the batch length, the times persisted over all batches are
\* exactly those from start_sample + trough_offset to
\* end_sample - (spike_length_samples - trough_offset).
C6_SameSetForEveryBatchLength ==
    (gdone = BatchIds /\ shape_failed = {}) =>
        {p[2] : p \in persisted}
            = {t \in AllTimes :
                 /\ start_sample + trough_offset <= t
                 /\ t <= end_sample - (spike_length_samples - trough_offset)}

\* C7: the padded chunk of every batch has 2 * buffer + (s_end - s_start)
\* rows, in subtraction_batch and in run_batch: no shape assertion fails.
C7_ShapeAssertionNeverFails == shape_failed = {} /\ mp_shape_failed = {}


\* ---- claims of the store

\* C29: whenever the supervisor is outside the store-update section (between
\* two batches, at DONE, or after an exception or an interrupt has left
\* subtraction()), spike_index and every other per-spike table of the store
\* have the same number of rows, the counter N.
C29_TablesAgreeOutsideSection ==
    pc \in {"loop", "done", "raised", "interrupted"} =>
        /\ Len(spike_index) = N
        /\ \A t \in OtherTables : rows[t] = N

\* ---- claims of detect_and_subtract

\* Spike s's extraction window covers cell (t, c).
covers(s, t, c) ==
    /\ t - time_ix(s, 0) \in 0..(spike_length_samples - 1)
    /\ \E j \in 1..extract_channels : chan_ix(s, j) = c

\* The denoised waveforms of the spikes s.. of the pass at cell (t, c),
\* added up.
RECURSIVE covering_sum(_, _, _)
covering_sum(s, t, c) ==
    IF s > Len(das_spike_index) THEN 0
    ELSE (IF covers(s, t, c)
          THEN LET j == CHOOSE i \in 1..extract_channels : chan_ix(s, i) = c
               IN  denoised(s, t - time_ix(s, 0), j)
          ELSE 0)
         + covering_sum(s + 1, t, c)

\* C26: the residual detect_and_subtract returns holds, on every cell of a
\* real channel, the value handed in minus the denoised waveform values of
\* all spikes of the pass whose window covers the cell: a cell no window
\* covers is unchanged, and with nothing detected so is the whole residual.
C26_SubtractionAccumulates ==
    das_pc = "returned" =>
        \A t \in DOMAIN raw : \A c \in DOMAIN raw[t] :
            subtracted_raw[t][c] = raw[t][c] - covering_sum(1, t, c)

\* C26 witness: two spikes whose windows share a cell of a real channel have
\* been subtracted from a residual that is not silent.
C26_Witness ==
    /\ das_pc = "returned"
    /\ Len(das_spike_index) = 2
    /\ raw[raw_rows - 1][1] # 0
    /\ \E t \in DOMAIN raw : \E c \in DOMAIN raw[t] :
          covers(1, t, c) /\ covers(2, t, c)

\* ---- claims of compute_objective

\* C25: after compute_objective, conv_result is the sum of the convolutions
\* of this batch's data and nothing else, and obj is the objective of that
\* sum: the same data and templates always give the same obj.
C25_ObjectiveFromThisBatchAlone ==
    co_pc = "computed" =>
        /\ conv_result = co_data
        /\ obj = compute_objective(co_data)

\* ---- claims of the upsampled find_peaks

\* A candidate of the last find_peaks whose window obj[unit, time - radius ..
\* time + radius] held an infinite cell when find_peaks was called.
touches(c) ==
    /\ up_factor # 1
    /\ \E w \in (-radius)..radius : isinf(hr_obj_before[c[2]][c[1] + w])

\* A row of a spike train that stands for candidate c: on one of c's
\* upsampled templates, at c's time or one sample later.
from_candidate(row, c) ==
    /\ row[2] \div up_factor = c[2]
    /\ row[1] + (n_time - 1) \in {c[1], c[1] + 1}

\* C21: a candidate whose upsampling window touches a cell of obj that is
\* already -infinity is not among the spikes find_peaks returns in that
\* pass, and is not in the spike train the pass appended to.
C21_InvalidCandidatesDiscarded ==
    hr_pc \in {"loop", "done", "raised"} =>
        \A k \in DOMAIN hr_candidates :
            touches(hr_candidates[k]) =>
                /\ \A j \in DOMAIN hr_spt :
                       ~from_candidate(hr_spt[j], hr_candidates[k])
                /\ \A j \in DOMAIN dec_spike_train :
                       ~from_candidate(dec_spike_train[j], hr_candidates[k])

\* C22: any two spikes one call of find_peaks returned, of the same or of
\* different units, are at least n_time - 1 samples apart, the 0/+1 time
\* correction of the upsampling included.
C22_SpikesOfOnePassApart ==
    \A j, k \in DOMAIN hr_spt :
        j # k =>
            \/ hr_spt[j][1] - hr_spt[k][1] >= n_time - 1
            \/ hr_spt[k][1] - hr_spt[j][1] >= n_time - 1

\* C22 witness: find_peaks with upsampled templates returned two spikes
\* exactly n_time - 1 apart, the first one moved a sample later.
C22_Witness ==
    /\ up_factor > 1
    /\ Len(hr_spt) = 2
    /\ hr_spt[2][1] - hr_spt[1][1] = n_time - 1
    /\ hr_spt[1][1] + (n_time - 1) = hr_candidates[1][1] + 1
    /\ hr_spt[2][1] + (n_time - 1) = hr_candidates[2][1]

\* C24: with lambd > 0 find_peaks returns, for each spike it accepted, the
\* scaling (conv_result[u, t] + 1 / lambd) / (norm[u] + 1 / lambd) of the
\* spike's original unit u and its time t in the objective, for every
\* up_factor.
C24_ScalingOfOriginalUnit ==
    ~no_amplitude_scaling /\ hr_pc \in {"raised", "IndexError"} =>
        /\ hr_pc # "IndexError"
        /\ \A k \in DOMAIN hr_spt :
              hr_scalings[k][k] =
                  scaling(conv_result,
                          [j \in DOMAIN hr_spt |->
                              <<hr_spt[j][1] + (n_time - 1),
                                hr_spt[j][2] \div up_factor>>],
                          k, k)

\* ---- claims of pairwise_filter_conv

\* C27: the saved table has an entry exactly at the ids up_up_map maps to,
\* and the entry of id A holds one row per original unit B that shares a
\* visible channel with A's unit, in ascending order of B: row j is the one
\* subtract_spike_train pairs with row unit_overlap[i] -> j of the objective
\* for every spike id i with up_up_map[i] = A; whatever the chunks and the
\* order they ended in.
C27_TableMatchesUnitOverlap ==
    pw_pc = "saved" =>
        \A i \in 0..(n_units * up_factor - 1) :
            /\ (~pairwise_table[i].is_none) <=>
                   (\E id \in 0..(n_units * up_factor - 1) : up_up_map(id) = i)
            /\ LET pconv == pairwise_table[up_up_map(i)]
                   unit_idx == overlapping(i)
               IN  /\ ~pconv.is_none
                   /\ Len(pconv.rows) = Len(unit_idx)
                   /\ \A j \in DOMAIN unit_idx :
                          pconv.rows[j] = <<up_up_map(i), unit_idx[j]>>
                   /\ \A j \in 1..(Len(unit_idx) - 1) :
                          unit_idx[j] < unit_idx[j + 1]

\* C27 witness: a pool computed several chunks, the last one first, for
\* upsampled templates of which some are not in the table, with units that
\* overlap.
C27_Witness ==
    /\ pw_pc = "saved"
    /\ multi_processing
    /\ Len(pw_order) >= 2
    /\ pw_order[1] = Len(pw_order) - 1
    /\ \E i \in DOMAIN pairwise_table : pairwise_table[i].is_none
    /\ \E i \in DOMAIN pairwise_table :
          ~pairwise_table[i].is_none /\ Len(pairwise_table[i].rows) = n_units

\* ---- claims of deconvolution()'s gathering

\* C30: whatever order the batches ended in, the gathered spike train is the
\* per-batch results one after the other in batch-id order, its times never
\* decrease, and every batch contributed only spikes of its own samples
\* s_start <= t < s_end.
C30_GatheredInBatchOrder ==
    ga_pc = "gathered" =>
        /\ \A k \in 1..(Len(deconv_st) - 1) :
               deconv_st[k][1] <= deconv_st[k + 1][1]
        /\ \A b \in BatchIds :
               LET before == Len(concatenate_files(
                                 AscendingSeq({c \in BatchIds : c < b})))
               IN  \A k \in DOMAIN ga_files[b] :
                       /\ deconv_st[before + k] = ga_files[b][k]
                       /\ mp_s_start(b) <= ga_files[b][k][1]
                       /\ ga_files[b][k][1] < mp_s_end(b)
        /\ Len(deconv_st) = Len(concatenate_files(AscendingSeq(BatchIds)))

\* C30 witness: the later batch ended first, and both batches contributed
\* spikes to the gathered train.
C30_Witness ==
    /\ ga_pc = "gathered"
    /\ ga_order = <<1, 0>>
    /\ \A b \in BatchIds : ga_files[b] # <<>>

\* ---- claims of the worker ranks

\* C28: every initializer that ran took exactly one id from the queue, the
\* ranks obtained are pairwise distinct values of 0..n_jobs-1, and no
\* initializer found the queue empty, with a pool of processes and with the
\* initializer run once in the calling process.
C28_RanksDistinctAndNeverBlocked ==
    /\ blocked = {}
    /\ \A w \in DOMAIN rank : rank[w] \in 0..(n_jobs - 1)
    /\ \A v, w \in DOMAIN rank : v # w => rank[v] # rank[w]
    /\ rk_pc = "pool" =>
          Len(id_queue) + Cardinality(DOMAIN rank) = n_jobs

\* C28 witness: every process of a pool of several workers has its rank.
C28_Witness ==
    /\ rk_pc = "pool"
    /\ Executor = "ProcessPoolExecutor"
    /\ n_jobs >= 2
    /\ DOMAIN rank = 1..n_jobs

====
